---- MODULE Spec2Model ----
(***************************************************************************)
(* A model of melo's two front-end stages:                                 *)
(*   - sequencing::sequence_pieces (src/src/sequencing/mod.rs), one action *)
(*     per loop head / loop body of the nested piece -> voice -> play ->   *)
(*     stave -> bar -> note loops;                                         *)
(*   - parse (src/src/parse/mod.rs), the recursive-descent scanner.        *)
(* Bytes are one-character strings, a source is a sequence of bytes.       *)
(***************************************************************************)
EXTENDS Integers, Sequences, FiniteSets, TLC

VARIABLES
    piece_nodes,            \* sequence_pieces: the argument (parse-tree pieces)
    pc,                     \* position in sequence_pieces / parse
    ip, iv, ipl, ist, ib, it, \* loop indices: piece, voice, play, stave, bar, note
    pieces,                 \* the result vector being built
    piece,                  \* the resolved piece being built
    voice,                  \* the resolved voice being built
    previous_note_exists,   \* local of the stave loop
    cursor,                 \* local of the bar loop
    note_scale,             \* local of the bar loop
    error,                  \* the Err payload, "none" while there is none
    parser                  \* parse: the Parser (source, cursor)

seqvars == <<piece_nodes, pc, ip, iv, ipl, ist, ib, it, pieces, piece, voice,
             previous_note_exists, cursor, note_scale, error>>

vars == <<seqvars, parser>>

(***************************************************************************)
(* Bounds of the explored inputs.                                          *)
(***************************************************************************)
MaxTokens == 2          \* tokens per bar
MaxBars == 2            \* bars per stave
MaxWeight == 3          \* tokens per piece, a bar with no token counting as one
MaxOctave == 11         \* voice octave in -MaxOctave..MaxOctave

None == "None"

\* an Option is a record with a flag `some`
Some(v) == [some |-> TRUE, value |-> v]
NoBytes == [some |-> FALSE, value |-> <<>>]
NoNumber == [some |-> FALSE, value |-> 0]
NoBool == [some |-> FALSE, value |-> FALSE]

(***************************************************************************)
(* Integer types.                                                          *)
(***************************************************************************)
I8_MIN == -128
I8_MAX == 127

FitsI8(n) == I8_MIN <= n /\ n <= I8_MAX

\* two's-complement wrap of n into i8 (what an unchecked i8 operation yields)
WrapI8(n) == ((n - I8_MIN) % 256) + I8_MIN

\* i8::checked_add: None when the sum does not fit
checked_add(a, b) ==
    IF FitsI8(a + b) THEN [some |-> TRUE, value |-> a + b]
    ELSE [some |-> FALSE, value |-> 0]

(***************************************************************************)
(* notes::lcm, the external arithmetic helper.                             *)
(***************************************************************************)
RECURSIVE gcd(_, _)
gcd(a, b) == IF b = 0 THEN a ELSE gcd(b, a % b)

lcm(a, b) == IF a = 0 \/ b = 0 THEN 0 ELSE (a * b) \div gcd(a, b)

(***************************************************************************)
(* Parse-tree nodes handed to the sequencer.                               *)
(*   piece node: [title, composer, tempo, beats, voices, plays];           *)
(*   voice node: [name, channel, program, octave, volume];                 *)
(*   play node: [voice (a name or None), staves]; a stave is the sequence  *)
(*   of its bars, a bar the sequence of its note nodes.                    *)
(***************************************************************************)
\* a piece node with no attribute set
PieceNode(voices, plays) ==
    [title |-> NoBytes, composer |-> NoBytes, tempo |-> NoNumber, beats |-> NoNumber,
     voices |-> voices, plays |-> plays]

\* a voice node with no attribute set but the octave
VoiceNode(name, octave) ==
    [name |-> name, channel |-> NoNumber, program |-> NoNumber,
     octave |-> Some(octave), volume |-> NoNumber]

Rest(l) == [kind |-> "Rest", midi |-> 0, length |-> l]
Extension(l) == [kind |-> "Extension", midi |-> 0, length |-> l]
NoteNode(m, l) == [kind |-> "Note", midi |-> m, length |-> l]

RECURSIVE SumLengths(_)
SumLengths(notes) ==
    IF notes = <<>> THEN 0 ELSE Head(notes).length + SumLengths(Tail(notes))

\* bar.notes.iter().map(|note| note.length()).sum()
BarLength(bar) == SumLengths(bar)

RECURSIVE Concat(_)
Concat(ss) == IF ss = <<>> THEN <<>> ELSE Head(ss) \o Concat(Tail(ss))

\* the bar lengths of every bar of every stave of one play, in order
PlayBarLengths(play) ==
    Concat([s \in 1..Len(play.staves) |->
              [b \in 1..Len(play.staves[s]) |-> BarLength(play.staves[s][b])]])

\* does this play belong to the voice called name?
PlayIsFor(play, name) == play.voice = name

\* the bar lengths the fold runs over: the plays bound to the voice, in order
VoiceBarLengths(piece_node, name) ==
    Concat([p \in 1..Len(piece_node.plays) |->
              IF PlayIsFor(piece_node.plays[p], name)
              THEN PlayBarLengths(piece_node.plays[p]) ELSE <<>>])

RECURSIVE FoldLcm(_, _)
FoldLcm(acc, ls) == IF ls = <<>> THEN acc ELSE FoldLcm(lcm(acc, Head(ls)), Tail(ls))

RECURSIVE FoldProduct(_, _)
FoldProduct(acc, ls) == IF ls = <<>> THEN acc ELSE FoldProduct(acc * Head(ls), Tail(ls))

\* a fold that multiplies the bar lengths instead of taking their lcm
bar_length_product(piece_node, name) == FoldProduct(1, VoiceBarLengths(piece_node, name))

\* .fold(1, lcm)
bar_length_lcm(piece_node, name) == FoldLcm(1, VoiceBarLengths(piece_node, name))

\* a validation that lets a play with no name through
matched_anon(piece_node, play) ==
    \/ play.voice = None
    \/ \E v \in 1..Len(piece_node.voices) : piece_node.voices[v].name = play.voice

\* piece_node.voices.iter().any(|voice| Some(voice.name) == play.voice)
matched(piece_node, play) ==
    \E v \in 1..Len(piece_node.voices) : piece_node.voices[v].name = play.voice

\* an error construction that forgets the play with no name
BindingError_named(play) == [kind |-> "UndeclaredVoice", voice_name |-> play.voice]

\* the error of an unmatched play
BindingError(play) ==
    IF play.voice = None THEN [kind |-> "VoicelessPlayBlock"]
    ELSE [kind |-> "UndeclaredVoice", voice_name |-> play.voice]

(***************************************************************************)
(* voice.notes.sort_by_key(|note| note.position): a stable sort.           *)
(***************************************************************************)
\* an insertion that puts a note before the notes of equal position
RECURSIVE InsertBeforeEqual(_, _)
InsertBeforeEqual(sorted, n) ==
    IF sorted = <<>> THEN <<n>>
    ELSE IF sorted[Len(sorted)].position < n.position THEN Append(sorted, n)
    ELSE Append(InsertBeforeEqual(SubSeq(sorted, 1, Len(sorted) - 1), n),
                sorted[Len(sorted)])

RECURSIVE InsertByPosition(_, _)
InsertByPosition(sorted, n) ==
    IF sorted = <<>> THEN <<n>>
    ELSE IF sorted[Len(sorted)].position <= n.position THEN Append(sorted, n)
    ELSE Append(InsertByPosition(SubSeq(sorted, 1, Len(sorted) - 1), n),
                sorted[Len(sorted)])

RECURSIVE SortFrom(_, _)
SortFrom(sorted, rest) ==
    IF rest = <<>> THEN sorted
    ELSE SortFrom(InsertByPosition(sorted, Head(rest)), Tail(rest))

sort_by_key(notes) == SortFrom(<<>>, notes)

(***************************************************************************)
(* Resolved values.  A resolved note carries, besides midi, length and     *)
(* position, the history field src = <<play, stave, bar, token>> of the    *)
(* note node it was made from; no operation reads it.                      *)
(***************************************************************************)
NoError == [kind |-> "none"]

\* the tempo and the beats of Piece::default(), the channel and the program
\* of Voice::default(): fixed values of sequencing::data
DefaultTempo == 120
DefaultBeats == 4
DefaultChannel == 1
DefaultProgram == 0

DefaultPiece ==
    [title |-> NoBytes, composer |-> NoBytes, tempo |-> DefaultTempo,
     beats |-> DefaultBeats, voices |-> <<>>]

\* an f64 that is the quotient of two integers
Quotient(num, den) == [num |-> num, den |-> den]

NoVolume == [some |-> FALSE, value |-> Quotient(0, 1)]

DefaultVoice ==
    [name |-> "", channel |-> DefaultChannel, program |-> DefaultProgram, octave |-> 0,
     volume |-> NoVolume, divisions_per_bar |-> 0, notes |-> <<>>]

\* Option::or
or(option, other) == IF option.some THEN option ELSE other

\* Option::unwrap_or
unwrap_or(option, default) == IF option.some THEN option.value ELSE default

\* voice_node.volume.map(|vol| f64::from(vol) / 127.0)
volume_of(option) ==
    IF option.some THEN Some(Quotient(option.value, I8_MAX)) ELSE NoVolume

piece_node == piece_nodes[ip]
voice_node == piece_node.voices[iv]
play_node == piece_node.plays[ipl]
stave_node == play_node.staves[ist]
bar_node == stave_node[ib]
note_node == bar_node[it]

\* the values `octave * 12` can take in i8: exact when it fits; otherwise the
\* build decides (overflow checks abort, without them the product wraps)
OctaveTimes12(octave) ==
    IF FitsI8(octave * 12)
    THEN {[panic |-> FALSE, value |-> octave * 12]}
    ELSE {[panic |-> FALSE, value |-> WrapI8(octave * 12)],
          [panic |-> TRUE, value |-> 0]}

(***************************************************************************)
(* sequence_pieces                                                         *)
(***************************************************************************)
\* for piece_node in piece_nodes (loop head); Ok(pieces) after the last
NextPiece ==
    /\ pc = "pieces"
    /\ IF ip > Len(piece_nodes)
       THEN pc' = "done" /\ UNCHANGED ipl
       ELSE pc' = "validate" /\ ipl' = 1
    /\ UNCHANGED <<parser, piece_nodes, ip, iv, ist, ib, it, pieces, piece, voice,
                   previous_note_exists, cursor, note_scale, error>>

\* validation: one play of `for play in &piece_node.plays`
ValidatePlay ==
    /\ pc = "validate"
    /\ ipl <= Len(piece_node.plays)
    /\ IF matched(piece_node, play_node)
       THEN ipl' = ipl + 1 /\ UNCHANGED <<pc, error>>
       ELSE pc' = "err" /\ error' = BindingError(play_node) /\ UNCHANGED ipl
    /\ UNCHANGED <<parser, piece_nodes, ip, iv, ist, ib, it, pieces, piece, voice,
                   previous_note_exists, cursor, note_scale>>

\* validation passed: let mut piece = Piece::default(); attributes
BeginPiece ==
    /\ pc = "validate"
    /\ ipl > Len(piece_node.plays)
    /\ piece' = [DefaultPiece EXCEPT
                    !.title = or(piece_node.title, DefaultPiece.title),
                    !.composer = or(piece_node.composer, DefaultPiece.composer),
                    !.tempo = unwrap_or(piece_node.tempo, DefaultPiece.tempo),
                    !.beats = unwrap_or(piece_node.beats, DefaultPiece.beats)]
    /\ iv' = 1
    /\ pc' = "voices"
    /\ UNCHANGED <<parser, piece_nodes, ip, ipl, ist, ib, it, pieces, voice,
                   previous_note_exists, cursor, note_scale, error>>

\* for voice_node in &piece_node.voices: the voice and its divisions_per_bar
BeginVoice ==
    /\ pc = "voices"
    /\ iv <= Len(piece_node.voices)
    /\ voice' = [name |-> voice_node.name,
                 channel |-> unwrap_or(voice_node.channel, DefaultVoice.channel),
                 program |-> unwrap_or(voice_node.program, DefaultVoice.program),
                 octave |-> unwrap_or(voice_node.octave, DefaultVoice.octave),
                 volume |-> volume_of(voice_node.volume),
                 divisions_per_bar |-> bar_length_lcm(piece_node, voice_node.name),
                 notes |-> <<>>]
    /\ ipl' = 1
    /\ pc' = "plays"
    /\ UNCHANGED <<parser, piece_nodes, ip, iv, ist, ib, it, pieces, piece,
                   previous_note_exists, cursor, note_scale, error>>

\* pieces.push(piece)
EndPiece ==
    /\ pc = "voices"
    /\ iv > Len(piece_node.voices)
    /\ pieces' = Append(pieces, piece)
    /\ ip' = ip + 1
    /\ pc' = "pieces"
    /\ UNCHANGED <<parser, piece_nodes, iv, ipl, ist, ib, it, piece, voice,
                   previous_note_exists, cursor, note_scale, error>>

\* for play_node in &piece_node.plays: skip the plays of other voices
NextPlay ==
    /\ pc = "plays"
    /\ ipl <= Len(piece_node.plays)
    /\ IF ~PlayIsFor(play_node, voice.name)
       THEN ipl' = ipl + 1 /\ UNCHANGED <<pc, ist>>
       ELSE ist' = 1 /\ pc' = "staves" /\ UNCHANGED ipl
    /\ UNCHANGED <<parser, piece_nodes, ip, iv, ib, it, pieces, piece, voice,
                   previous_note_exists, cursor, note_scale, error>>

\* piece.voices.push(voice)
EndVoice ==
    /\ pc = "plays"
    /\ ipl > Len(piece_node.plays)
    /\ piece' = [piece EXCEPT !.voices = Append(@, voice)]
    /\ iv' = iv + 1
    /\ pc' = "voices"
    /\ UNCHANGED <<parser, piece_nodes, ip, ipl, ist, ib, it, pieces, voice,
                   previous_note_exists, cursor, note_scale, error>>

\* for stave_node in &play_node.staves: let mut previous_note_exists = false
BeginStave ==
    /\ pc = "staves"
    /\ ist <= Len(play_node.staves)
    /\ previous_note_exists' = FALSE
    /\ ib' = 1
    /\ pc' = "bars"
    /\ UNCHANGED <<parser, piece_nodes, ip, iv, ipl, ist, it, pieces, piece, voice,
                   cursor, note_scale, error>>

\* after the staves of a bound play: voice.notes.sort_by_key(..)
EndPlay ==
    /\ pc = "staves"
    /\ ist > Len(play_node.staves)
    /\ voice' = [voice EXCEPT !.notes = sort_by_key(@)]
    /\ ipl' = ipl + 1
    /\ pc' = "plays"
    /\ UNCHANGED <<parser, piece_nodes, ip, iv, ist, ib, it, pieces, piece,
                   previous_note_exists, cursor, note_scale, error>>

\* a bar loop that declares previous_note_exists per bar instead of per stave
BeginBar_resets ==
    /\ pc = "bars"
    /\ ib <= Len(stave_node)
    /\ cursor' = (ib - 1) * voice.divisions_per_bar
    /\ previous_note_exists' = FALSE
    /\ LET bar_node_length == BarLength(bar_node) IN
       IF bar_node_length = 0 \/ voice.divisions_per_bar % bar_node_length # 0
       THEN pc' = "abort" /\ UNCHANGED <<note_scale, it>>
       ELSE /\ note_scale' = voice.divisions_per_bar \div bar_node_length
            /\ it' = 1
            /\ pc' = "notes"
    /\ UNCHANGED <<parser, piece_nodes, ip, iv, ipl, ist, ib, pieces, piece, voice, error>>

\* for (index, bar_node) in ..enumerate(): cursor, the assertion, note_scale
BeginBar ==
    /\ pc = "bars"
    /\ ib <= Len(stave_node)
    /\ cursor' = (ib - 1) * voice.divisions_per_bar
    /\ LET bar_node_length == BarLength(bar_node) IN
       IF bar_node_length = 0 \/ voice.divisions_per_bar % bar_node_length # 0
       THEN pc' = "abort" /\ UNCHANGED <<note_scale, it>>
       ELSE /\ note_scale' = voice.divisions_per_bar \div bar_node_length
            /\ it' = 1
            /\ pc' = "notes"
    /\ UNCHANGED <<parser, piece_nodes, ip, iv, ipl, ist, ib, pieces, piece, voice,
                   previous_note_exists, error>>

EndStave ==
    /\ pc = "bars"
    /\ ib > Len(stave_node)
    /\ ist' = ist + 1
    /\ pc' = "staves"
    /\ UNCHANGED <<parser, piece_nodes, ip, iv, ipl, ib, it, pieces, piece, voice,
                   previous_note_exists, cursor, note_scale, error>>

\* a rest that moves the cursor by its length as written, not scaled
ResolveRest_unscaled ==
    /\ pc = "notes"
    /\ it <= Len(bar_node)
    /\ note_node.kind = "Rest"
    /\ previous_note_exists' = FALSE
    /\ cursor' = cursor + note_node.length
    /\ it' = it + 1
    /\ UNCHANGED <<parser, piece_nodes, pc, ip, iv, ipl, ist, ib, pieces, piece, voice,
                   note_scale, error>>

\* NoteNode::Rest { length }
ResolveRest ==
    /\ pc = "notes"
    /\ it <= Len(bar_node)
    /\ note_node.kind = "Rest"
    /\ previous_note_exists' = FALSE
    /\ cursor' = cursor + note_scale * note_node.length
    /\ it' = it + 1
    /\ UNCHANGED <<parser, piece_nodes, pc, ip, iv, ipl, ist, ib, pieces, piece, voice,
                   note_scale, error>>

\* an extension that lengthens the last note of the voice without asking whether
\* the stave has a note to extend
ResolveExtension_unasked ==
    /\ pc = "notes"
    /\ it <= Len(bar_node)
    /\ note_node.kind = "Extension"
    /\ IF voice.notes = <<>>
       THEN UNCHANGED voice
       ELSE voice' = [voice EXCEPT !.notes[Len(voice.notes)].length =
                                      @ + note_scale * note_node.length]
    /\ cursor' = cursor + note_scale * note_node.length
    /\ it' = it + 1
    /\ UNCHANGED <<parser, piece_nodes, pc, ip, iv, ipl, ist, ib, pieces, piece,
                   previous_note_exists, note_scale, error>>

\* NoteNode::Extension { length }
ResolveExtension ==
    /\ pc = "notes"
    /\ it <= Len(bar_node)
    /\ note_node.kind = "Extension"
    /\ IF previous_note_exists
       THEN IF voice.notes = <<>>
            THEN pc' = "abort" /\ UNCHANGED voice      \* last_mut().trust() on None
            ELSE /\ voice' = [voice EXCEPT !.notes[Len(voice.notes)].length =
                                              @ + note_scale * note_node.length]
                 /\ UNCHANGED pc
       ELSE UNCHANGED <<voice, pc>>
    /\ cursor' = cursor + note_scale * note_node.length
    /\ it' = it + 1
    /\ UNCHANGED <<parser, piece_nodes, ip, iv, ipl, ist, ib, pieces, piece,
                   previous_note_exists, note_scale, error>>

\* NoteNode::Note { midi, length }
ResolveNote ==
    /\ pc = "notes"
    /\ it <= Len(bar_node)
    /\ note_node.kind = "Note"
    /\ previous_note_exists' = TRUE
    /\ \E product \in OctaveTimes12(voice.octave) :
         IF product.panic
         THEN pc' = "abort" /\ UNCHANGED <<voice, cursor, it, error>>
         ELSE LET midi == checked_add(note_node.midi, product.value) IN
              IF ~midi.some
              THEN /\ pc' = "err"
                   /\ error' = [kind |-> "InvalidNote", midi |-> note_node.midi,
                                octave_offset |-> voice.octave]
                   /\ UNCHANGED <<voice, cursor, it>>
              ELSE LET length == note_scale * note_node.length
                       note == [midi |-> midi.value, length |-> length,
                                position |-> cursor, src |-> <<ipl, ist, ib, it>>]
                   IN /\ voice' = [voice EXCEPT !.notes = Append(@, note)]
                      /\ cursor' = cursor + length
                      /\ it' = it + 1
                      /\ UNCHANGED <<pc, error>>
    /\ UNCHANGED <<parser, piece_nodes, ip, iv, ipl, ist, ib, pieces, piece, note_scale>>

EndBar ==
    /\ pc = "notes"
    /\ it > Len(bar_node)
    /\ ib' = ib + 1
    /\ pc' = "bars"
    /\ UNCHANGED <<parser, piece_nodes, ip, iv, ipl, ist, it, pieces, piece, voice,
                   previous_note_exists, cursor, note_scale, error>>

Next ==
    \/ NextPiece
    \/ ValidatePlay
    \/ BeginPiece
    \/ BeginVoice
    \/ EndPiece
    \/ NextPlay
    \/ EndVoice
    \/ BeginStave
    \/ EndPlay
    \/ BeginBar
    \/ EndStave
    \/ ResolveRest
    \/ ResolveExtension
    \/ ResolveNote
    \/ EndBar

(***************************************************************************)
(* The explored inputs.                                                    *)
(***************************************************************************)
Tokens == {Rest(1), Extension(2), NoteNode(60, 1)}

\* the bars of weight w: w tokens, or no token at all for w = 1
BarsOfWeight(w) ==
    (IF w = 1 THEN {<<>>} ELSE {}) \cup (IF w <= MaxTokens THEN [1..w -> Tokens] ELSE {})

\* the staves of n bars and weight w
RECURSIVE StavesOf(_, _)
StavesOf(n, w) ==
    IF n = 0 THEN (IF w = 0 THEN {<<>>} ELSE {})
    ELSE UNION {{Append(s, bar) : s \in StavesOf(n - 1, w - k), bar \in BarsOfWeight(k)} :
                   k \in 1..w}

Staves(w) == UNION {StavesOf(n, w) : n \in 1..MaxBars}

\* two staves of weight w together
StavePairs(w) == UNION {Staves(k) \X Staves(w - k) : k \in 1..(w - 1)}

Play(v, staves) == [voice |-> v, staves |-> staves]

TimingVoices == <<VoiceNode("A", 0), VoiceNode("B", 0)>>

\* one or two staves, as one play or as two plays, for the voices A and B
TimingPlayLists(w) ==
    {<<Play(v, <<s>>)>> : v \in {"A", "B"}, s \in Staves(w)}
    \cup {<<Play(v, <<sp[1], sp[2]>>)>> : v \in {"A", "B"}, sp \in StavePairs(w)}
    \cup {<<Play(vv[1], <<sp[1]>>), Play(vv[2], <<sp[2]>>)>> :
             vv \in {"A", "B"} \X {"A", "B"}, sp \in StavePairs(w)}

TimingInputs ==
    UNION {{<<PieceNode(TimingVoices, pl)>> : pl \in TimingPlayLists(w)} :
              w \in 1..MaxWeight}

\* Parser::new
Parser_new(source) == [source |-> source, cursor |-> 0]

InitSequencer(inputs) ==
    /\ piece_nodes \in inputs
    /\ parser = Parser_new(<<>>)
    /\ pc = "pieces"
    /\ ip = 1 /\ iv = 1 /\ ipl = 1 /\ ist = 1 /\ ib = 1 /\ it = 1
    /\ pieces = <<>>
    /\ piece = DefaultPiece
    /\ voice = DefaultVoice
    /\ previous_note_exists = FALSE
    /\ cursor = 0
    /\ note_scale = 0
    /\ error = NoError

Init == InitSequencer(TimingInputs)

Spec == Init /\ [][Next]_vars

(***************************************************************************)
(* The inputs that vary pitch, octave and binding: one voice A with an     *)
(* octave, one or two plays for no voice, for A or for the undeclared B,   *)
(* each with the stave `rest note extension`.                              *)
(***************************************************************************)
PitchStave(p) == << <<Rest(1), NoteNode(p, 1), Extension(1)>> >>

PlayVoices == {None, "A", "B"}

PitchPlayLists(p) ==
    {<<Play(v, <<PitchStave(p)>>)>> : v \in PlayVoices}
    \cup {<<Play(vv[1], <<PitchStave(p)>>), Play(vv[2], <<PitchStave(p)>>)>> :
             vv \in PlayVoices \X PlayVoices}

PitchPiece(o, pl) == PieceNode(<<VoiceNode("A", o)>>, pl)

\* every base pitch 0..127 against every octave, in one play bound to A
PitchInputs ==
    UNION {{<<PitchPiece(o, <<Play("A", <<PitchStave(p)>>)>>)>> :
               o \in (-MaxOctave)..MaxOctave} : p \in 0..I8_MAX}

\* pitches at the upper edge, with and without an octave that pushes them out
EdgePieces(pls(_)) ==
    UNION {{PitchPiece(o, pl) : o \in {0, 1}, pl \in pls(p)} : p \in {I8_MAX - 12, I8_MAX}}

\* every binding of one or two plays
BindingInputs == {<<a>> : a \in EdgePieces(PitchPlayLists)}

\* two pieces: the pieces before the failing one are resolved in full
TwoPieceInputs ==
    LET OnePlay(p) == {<<Play(v, <<PitchStave(p)>>)>> : v \in PlayVoices}
    IN  {<<a, b>> : a \in EdgePieces(OnePlay), b \in EdgePieces(OnePlay)}

InitPitch == InitSequencer(PitchInputs \cup BindingInputs \cup TwoPieceInputs)

PitchSpec == InitPitch /\ [][Next]_vars

(***************************************************************************)
(* Properties of sequence_pieces.                                          *)
(***************************************************************************)
DeclaredNames(pn) == {pn.voices[v].name : v \in 1..Len(pn.voices)}

\* the play matches no declared voice of the piece by name
Unbound(pn, play) == play.voice = None \/ play.voice \notin DeclaredNames(pn)

UnboundPlays(pn) == {k \in 1..Len(pn.plays) : Unbound(pn, pn.plays[k])}

FirstUnbound(pn) == CHOOSE k \in UnboundPlays(pn) : \A j \in UnboundPlays(pn) : k <= j

\* the note nodes of a play that do not fit i8 once transposed by octave
OutOfRangeNotes(play, octave) ==
    {<<s, b, t>> \in (1..Len(play.staves)) \X (1..MaxBars) \X (1..(MaxTokens + 1)) :
        /\ b <= Len(play.staves[s])
        /\ t <= Len(play.staves[s][b])
        /\ play.staves[s][b][t].kind = "Note"
        /\ ~FitsI8(play.staves[s][b][t].midi + 12 * octave)}

\* C2: a piece with a play that matches no declared voice by name makes
\* sequence_pieces return Err before anything of that piece is resolved, and the
\* error is the one of the first such play in play order: UndeclaredVoice with
\* the play's voice name, or VoicelessPlayBlock for a play with no name.
C2_FirstUnboundPlayIsTheError ==
    (ip <= Len(piece_nodes) /\ UnboundPlays(piece_nodes[ip]) # {}) =>
        /\ pc \in {"pieces", "validate", "err"}
        /\ pc = "err" =>
             LET play == piece_nodes[ip].plays[FirstUnbound(piece_nodes[ip])] IN
             error = IF play.voice = None
                     THEN [kind |-> "VoicelessPlayBlock"]
                     ELSE [kind |-> "UndeclaredVoice", voice_name |-> play.voice]

\* C2 witness: the second play names the undeclared voice B, the first play is
\* bound and holds a note that is out of range for its voice's octave
C2_Witness ==
    /\ pc = "err"
    /\ error = [kind |-> "UndeclaredVoice", voice_name |-> "B"]
    /\ ipl = 2
    /\ piece_node.plays[1].voice = "A"
    /\ OutOfRangeNotes(piece_node.plays[1], piece_node.voices[1].octave.value) # {}

\* C6 (as claimed): resolving a Note either pushes midi = base pitch + 12 * octave
\* exactly, or returns Err InvalidNote{midi: base pitch, octave_offset: octave},
\* the error being the outcome exactly when the transposed pitch does not fit
\* i8; there is no wrap-around and no abort.
C6_TransposeExactOrInvalidNote ==
    [][(pc = "notes" /\ it <= Len(bar_node) /\ note_node.kind = "Note") =>
          LET exact == note_node.midi + 12 * voice.octave IN
          IF FitsI8(exact)
          THEN /\ pc' = "notes"
               /\ Len(voice'.notes) = Len(voice.notes) + 1
               /\ voice'.notes[Len(voice'.notes)].midi = exact
          ELSE /\ pc' = "err"
               /\ error' = [kind |-> "InvalidNote", midi |-> note_node.midi,
                            octave_offset |-> voice.octave]]_vars

AllNotes ==
    UNION {UNION {{pieces[p].voices[v].notes[n] : n \in 1..Len(pieces[p].voices[v].notes)} :
                     v \in 1..Len(pieces[p].voices)} : p \in 1..Len(pieces)}

\* C7 (as claimed): in every Ok result every note's midi is within 0..127.
C7_MidiWithin0To127 ==
    pc = "done" => \A n \in AllNotes : 0 <= n.midi /\ n.midi <= 127

\* C8 (as claimed): in a piece that declares a voice, a play with no name is
\* accepted by the binding validation.
C8_AnonymousPlayAccepted ==
    ~(pc = "err" /\ error.kind = "VoicelessPlayBlock" /\ Len(piece_node.voices) >= 1)

\* C8 (amended): a play with no name binds to no voice: when the validation
\* reaches it, sequence_pieces returns Err VoicelessPlayBlock whatever voices the
\* piece declares, and no resolved note ever comes from a play with no name.
C8_AnonymousPlayIsVoiceless ==
    [][/\ (pc = "validate" /\ ipl <= Len(piece_node.plays) /\ play_node.voice = None) =>
            (pc' = "err" /\ error' = [kind |-> "VoicelessPlayBlock"])
       /\ (pc' \in {"plays", "staves", "bars", "notes"} =>
            \A n \in 1..Len(voice'.notes) :
                piece_nodes[ip'].plays[voice'.notes[n].src[1]].voice # None)]_vars

\* C8 witness: the piece declares voice A, its first play is bound to A and its
\* second play has no name
C8_Witness ==
    /\ pc = "err"
    /\ error = [kind |-> "VoicelessPlayBlock"]
    /\ Len(piece_node.voices) >= 1
    /\ ipl = 2
    /\ piece_node.plays[1].voice = "A"
    /\ piece_node.plays[2].voice = None

\* the bar lengths of the plays bound to the voice called name, as a set
BoundBarLengths(pn, name) ==
    {BarLength(pn.plays[k].staves[s][b]) :
        <<k, s, b>> \in {x \in (1..Len(pn.plays)) \X (1..2) \X (1..(MaxBars + 1)) :
                            /\ pn.plays[x[1]].voice = name
                            /\ x[2] <= Len(pn.plays[x[1]].staves)
                            /\ x[3] <= Len(pn.plays[x[1]].staves[x[2]])}}

RECURSIVE SetProduct(_)
SetProduct(S) == IF S = {} THEN 1 ELSE LET x == CHOOSE y \in S : TRUE IN x * SetProduct(S \ {x})

\* the least common multiple of a set of naturals: the least positive common
\* multiple, 1 for the empty set, 0 when 0 is in the set
SetLcm(S) ==
    IF 0 \in S THEN 0
    ELSE CHOOSE n \in 1..SetProduct(S) :
            /\ \A l \in S : n % l = 0
            /\ \A m \in 1..(n - 1) : \E l \in S : m % l # 0

DivisionsAreLcm(pn, v) ==
    LET S == BoundBarLengths(pn, v.name) IN
    /\ v.divisions_per_bar = SetLcm(S)
    /\ \A l \in S : \E k \in 0..v.divisions_per_bar : v.divisions_per_bar = k * l
    /\ S = {} => v.divisions_per_bar = 1

\* C3: the divisions_per_bar of every voice is the least common multiple of the
\* lengths of the bars of the plays bound to it (a set: no order matters), hence
\* a multiple of each, and 1 for a voice with no bound play.
C3_DivisionsPerBarIsLcm ==
    /\ pc \in {"plays", "staves", "bars", "notes"} => DivisionsAreLcm(piece_node, voice)
    /\ \A p \in 1..Len(pieces) : \A v \in 1..Len(pieces[p].voices) :
          DivisionsAreLcm(piece_nodes[p], pieces[p].voices[v])

\* C3 witness: a result where voice A has bars of length 2 and 3 and 6 divisions,
\* and voice B, with no play, has 1
C3_Witness ==
    /\ pc = "done"
    /\ {2, 3} \subseteq BoundBarLengths(piece_nodes[1], "A")
    /\ pieces[1].voices[1].divisions_per_bar = 6
    /\ BoundBarLengths(piece_nodes[1], "B") = {}
    /\ pieces[1].voices[2].divisions_per_bar = 1

\* the tokens of a stave before token t of bar b, in order, as <<bar, token>>
TokensBefore(stave, b, t) ==
    Concat([bb \in 1..b |->
              [tt \in 1..(IF bb = b THEN t - 1 ELSE Len(stave[bb])) |-> <<bb, tt>>]])

\* the indices, in TokensBefore, of the Note that an Extension at (b, t) is tied
\* to: a Note followed by nothing but Extensions
TiedTo(stave, b, t) ==
    LET before == TokensBefore(stave, b, t)
        tok(j) == stave[before[j][1]][before[j][2]]
    IN  {j \in 1..Len(before) :
            /\ tok(j).kind = "Note"
            /\ \A m \in (j + 1)..Len(before) : tok(m).kind = "Extension"}

\* C4: an Extension that follows a Note of its stave with only Extensions (and
\* bar boundaries) in between adds scale * length, scale being that of the
\* Extension's bar, to exactly that Note, which is the last note of voice.notes;
\* nothing else changes, and the step does not abort.  While the previous-note
\* flag is set, voice.notes is not empty.
C4_ExtensionLengthensItsNote ==
    [][/\ (/\ pc = "notes" /\ it <= Len(bar_node)
           /\ note_node.kind = "Extension"
           /\ TiedTo(stave_node, ib, it) # {}) =>
              LET before == TokensBefore(stave_node, ib, it)
                  j == CHOOSE k \in TiedTo(stave_node, ib, it) : TRUE
                  n == Len(voice.notes)
                  scale == voice.divisions_per_bar \div BarLength(bar_node)
              IN  /\ pc' = "notes"
                  /\ n >= 1
                  /\ voice.notes[n].src = <<ipl, ist, before[j][1], before[j][2]>>
                  /\ voice' = [voice EXCEPT !.notes[n].length =
                                               @ + scale * note_node.length]
       /\ (pc' = "notes" /\ previous_note_exists') => voice'.notes # <<>>]_vars

\* C4 witness: in the second stave of a play, the Extension that opens the
\* second bar has just lengthened the note of the first bar, past the notes of
\* the first stave
C4_Witness ==
    /\ pc = "notes"
    /\ ist = 2 /\ ib = 2 /\ it = 2
    /\ bar_node[1].kind = "Extension"
    /\ Len(voice.notes) >= 2
    /\ voice.notes[1].src[2] = 1
    /\ LET last == voice.notes[Len(voice.notes)] IN
       /\ last.src = <<ipl, 2, 1, Len(stave_node[1])>>
       /\ last.length = (voice.divisions_per_bar \div BarLength(stave_node[1])) * 1
                        + note_scale * bar_node[1].length

\* emission order: play, then stave, then bar, then token
EmittedBefore(a, b) ==
    \E k \in 1..4 : a[k] < b[k] /\ \A j \in 1..(k - 1) : a[j] = b[j]

\* C5: in an Ok result the notes of every voice are in non-decreasing order of
\* position, and notes of equal position are in the order of their emission.
C5_NotesSortedStably ==
    pc = "done" =>
        \A p \in 1..Len(pieces) : \A v \in 1..Len(pieces[p].voices) :
            LET notes == pieces[p].voices[v].notes IN
            \A i \in 1..Len(notes) : \A j \in (i + 1)..Len(notes) :
                /\ notes[i].position <= notes[j].position
                /\ notes[i].position = notes[j].position =>
                      EmittedBefore(notes[i].src, notes[j].src)

\* C5 witness: a voice with two plays, where two notes of different plays share
\* a position and a note emitted later stands before one emitted earlier
C5_Witness ==
    /\ pc = "done"
    /\ \E v \in 1..Len(pieces[1].voices) :
          LET notes == pieces[1].voices[v].notes IN
          /\ \E i \in 1..Len(notes) : \E j \in (i + 1)..Len(notes) :
                /\ notes[i].position = notes[j].position
                /\ notes[i].src[1] # notes[j].src[1]
          /\ \E i \in 1..Len(notes) : \E j \in (i + 1)..Len(notes) :
                EmittedBefore(notes[j].src, notes[i].src)

(***************************************************************************)
(* parse (src/src/parse/mod.rs).  The Parser is a record of its source and *)
(* its cursor; a method that mutates the parser is an operator that        *)
(* returns the parser after the call, together with what the method        *)
(* returns.  Where the code goes on with the result of a call, the model   *)
(* hands the result to an operator for the rest of the function.           *)
(***************************************************************************)

\* Ok(value) with the parser as the call leaves it; `overflow` records that an
\* unchecked i8 multiplication overflowed on the way to this result
Ok(p, v) == [err |-> FALSE, parser |-> p, value |-> v, overflow |-> FALSE]
Err(msg) == [err |-> TRUE, msg |-> msg, overflow |-> FALSE]

\* Err(msg) from a method of the parser, with the parser as the call leaves it
ErrAt(p, msg) == [err |-> TRUE, msg |-> msg, overflow |-> FALSE, parser |-> p]

\* the Err of expect, which names the byte it saw
ErrSaw(p, next_byte) ==
    [err |-> TRUE, msg |-> "Expected a token but saw another", overflow |-> FALSE,
     parser |-> p, saw |-> next_byte]
Overflowed(r, o) == [r EXCEPT !.overflow = @ \/ o]

\* the value of `a || b` for two calls that return whether they skipped
first_ok(a, b) == IF a.ok THEN a ELSE b

LowerCase == {"a", "b", "c", "d", "e", "f", "g", "h", "i", "j", "k", "l", "m",
              "n", "o", "p", "q", "r", "s", "t", "u", "v", "w", "x", "y", "z"}
UpperCase == {"A", "B", "C", "D", "E", "F", "G", "H", "I", "J", "K", "L", "M",
              "N", "O", "P", "Q", "R", "S", "T", "U", "V", "W", "X", "Y", "Z"}
Digits == <<"0", "1", "2", "3", "4", "5", "6", "7", "8", "9">>

is_whitespace(ch) == ch \in {" ", "\t", "\r"}

is_digit(ch) == \E i \in 1..Len(Digits) : Digits[i] = ch

is_ident_char(ch) ==
    ch = "_" \/ ch \in LowerCase \/ ch \in UpperCase \/ is_digit(ch)

is_attr_char(ch) ==
    ch \in {"_", ",", "'", "#"} \/ ch \in LowerCase \/ ch \in UpperCase \/ is_digit(ch)

\* self.source[i], with i counted from 0 as in the code
byte_at(p, i) == p.source[i + 1]

\* &self.source[from..to]
slice(p, from, to) == SubSeq(p.source, from + 1, to)

advance(p, n) == [p EXCEPT !.cursor = @ + n]

finished(p) == p.cursor = Len(p.source)

check(p, next) ==
    /\ p.cursor + Len(next) <= Len(p.source)
    /\ slice(p, p.cursor, p.cursor + Len(next)) = next

skip_only(p, next) ==
    IF check(p, next) THEN [ok |-> TRUE, parser |-> advance(p, Len(next))]
    ELSE [ok |-> FALSE, parser |-> p]

RECURSIVE skip_whitespace_loop(_, _)
skip_whitespace_loop(p, in_comment) ==
    IF check(p, <<"/", "/">>) THEN skip_whitespace_loop(advance(p, 2), TRUE)
    ELSE IF check(p, <<"\n">>) THEN skip_whitespace_loop(advance(p, 1), FALSE)
    ELSE IF finished(p) \/ ~(in_comment \/ is_whitespace(byte_at(p, p.cursor))) THEN p
    ELSE skip_whitespace_loop(advance(p, 1), in_comment)

skip_whitespace(p) == skip_whitespace_loop(p, FALSE)

RECURSIVE skip_whitespace_in_line_loop(_, _)
skip_whitespace_in_line_loop(p, in_comment) ==
    IF check(p, <<"/", "/">>) THEN skip_whitespace_in_line_loop(advance(p, 2), TRUE)
    ELSE IF \/ finished(p)
            \/ check(p, <<"\n">>)
            \/ ~(in_comment \/ is_whitespace(byte_at(p, p.cursor)))
         THEN p
    ELSE skip_whitespace_in_line_loop(advance(p, 1), in_comment)

skip_whitespace_in_line(p) == skip_whitespace_in_line_loop(p, FALSE)

skip(p, next) ==
    IF check(p, next)
    THEN [ok |-> TRUE, parser |-> skip_whitespace(advance(p, Len(next)))]
    ELSE [ok |-> FALSE, parser |-> p]

\* expect, once next_byte is read and self.skip(next) has run
expect_skipped(next_byte, skipped) ==
    IF ~skipped.ok THEN ErrSaw(skipped.parser, next_byte)
    ELSE Ok(skipped.parser, TRUE)

expect(p, next) ==
    IF finished(p) THEN ErrAt(p, "Expected a token but reached the end of the file.")
    ELSE expect_skipped(byte_at(p, p.cursor), skip(p, next))

\* a check_keyword that does not look at the byte after the keyword
check_keyword_prefix(p, keyword) == check(p, keyword)

check_keyword(p, keyword) ==
    /\ check(p, keyword)
    /\ \/ p.cursor + Len(keyword) = Len(p.source)
       \/ ~is_ident_char(byte_at(p, p.cursor + Len(keyword)))

skip_keyword(p, keyword) ==
    IF check_keyword(p, keyword)
    THEN [ok |-> TRUE, parser |-> skip_whitespace(advance(p, Len(keyword)))]
    ELSE [ok |-> FALSE, parser |-> p]

\* the end of the run of attribute bytes that starts at the cursor
RECURSIVE attr_end(_, _)
attr_end(p, end) ==
    IF end < Len(p.source) /\ is_attr_char(byte_at(p, end)) THEN attr_end(p, end + 1)
    ELSE end

\* check_attr, once the end of the run is found
attr_until(p, end) ==
    IF end = p.cursor THEN NoBytes ELSE Some(slice(p, p.cursor, end))

check_attr(p) == attr_until(p, attr_end(p, p.cursor))

\* parse_attr, once self.check_attr() has run
attr_checked(p, attr) ==
    [attr |-> attr,
     parser |-> IF attr.some THEN skip_whitespace(advance(p, Len(attr.value)))
                ELSE p]

parse_attr(p) == attr_checked(p, check_attr(p))

\* the end of the run of digits, with one leading `-` allowed
RECURSIVE number_end(_, _)
number_end(p, end) ==
    IF /\ end < Len(p.source)
       /\ \/ is_digit(byte_at(p, end))
          \/ (end = p.cursor /\ byte_at(p, end) = "-")
    THEN number_end(p, end + 1)
    ELSE end

digit_value(ch) == (CHOOSE i \in 1..Len(Digits) : Digits[i] = ch) - 1

RECURSIVE digits_value(_)
digits_value(text) ==
    IF text = <<>> THEN 0
    ELSE 10 * digits_value(SubSeq(text, 1, Len(text) - 1)) + digit_value(text[Len(text)])

\* the values of the integer types the attributes are parsed into; the
\* sources of this model hold too few digits to reach the end of u64
in_range(T, v) ==
    CASE T = "u8" -> 0 <= v /\ v <= 2 * I8_MAX + 1
      [] T = "i8" -> FitsI8(v)
      [] T = "u64" -> 0 <= v

\* the number v that the digits stand for, when there are digits and v is a T
in_type(T, digits, v) ==
    IF digits = <<>> \/ ~in_range(T, v) THEN NoNumber ELSE Some(v)

\* str::parse::<T>() of a run of ASCII digits with an optional leading `-`:
\* an unsigned type takes no sign, and the value has to fit the type
from_str(T, text) ==
    IF text # <<>> /\ text[1] = "-"
    THEN IF T = "i8" THEN in_type(T, Tail(text), 0 - digits_value(Tail(text)))
         ELSE NoNumber
    ELSE in_type(T, text, digits_value(text))

\* a parse_number_only that moves the cursor before it parses the text
number_parsed_moved(p, end, result) ==
    IF ~result.some THEN ErrAt([p EXCEPT !.cursor = end], "Could not parse number")
    ELSE Ok([p EXCEPT !.cursor = end], result.value)

\* parse_number_only, once the text is parsed
number_parsed(p, end, result) ==
    IF ~result.some THEN ErrAt(p, "Could not parse number")
    ELSE Ok([p EXCEPT !.cursor = end], result.value)

\* parse_number_only, once the end of the run is found
number_until(p, T, end) == number_parsed(p, end, from_str(T, slice(p, p.cursor, end)))

parse_number_only(p, T) == number_until(p, T, number_end(p, p.cursor))

\* the loop of parse_string_only once the opening quote is seen: i is the
\* index of the byte looked at, counted from the cursor
RECURSIVE string_scan(_, _, _)
string_scan(p, i, escaping) ==
    IF p.cursor + i >= Len(p.source) THEN ErrAt(p, "Unclosed string!")
    ELSE IF byte_at(p, p.cursor + i) = "\\" /\ ~escaping THEN string_scan(p, i + 1, TRUE)
    ELSE IF byte_at(p, p.cursor + i) = "\"" /\ ~escaping
         THEN Ok(advance(p, i + 1), slice(p, p.cursor + 1, p.cursor + i))
    ELSE string_scan(p, i + 1, FALSE)

parse_string_only(p) ==
    IF finished(p) THEN ErrAt(p, "Unclosed string!")
    ELSE IF byte_at(p, p.cursor) # "\"" THEN ErrAt(p, "String must open with a quote")
    ELSE string_scan(p, 1, FALSE)

\* parse_bool_only, with the outcomes of the two skip_keyword calls
bool_of(true, false) ==
    IF true.ok THEN Ok(true.parser, TRUE)
    ELSE IF false.ok THEN Ok(false.parser, FALSE)
    ELSE ErrAt(false.parser, "Failed to parse bool.")

parse_bool_only(p) ==
    bool_of(skip_keyword(p, <<"t", "r", "u", "e">>),
            skip_keyword(p, <<"f", "a", "l", "s", "e">>))

skip_end_of_stave(p) ==
    IF finished(p) THEN [ok |-> TRUE, parser |-> p]
    ELSE IF check(p, <<"\n">>) THEN [ok |-> TRUE, parser |-> advance(p, 1)]
    ELSE IF check(p, <<";">>) THEN [ok |-> TRUE, parser |-> advance(p, 1)]
    ELSE [ok |-> check(p, <<"}">>), parser |-> p]

RECURSIVE skip_stave_contents(_)

\* one test of the loop of skip_stave_contents
stave_contents_until(p, end) ==
    IF end.ok THEN end.parser ELSE skip_stave_contents(advance(p, 1))

skip_stave_contents(p) == stave_contents_until(p, skip_end_of_stave(p))

(***************************************************************************)
(* The parse tree and the recursive-descent functions.                     *)
(***************************************************************************)
Stave(prefix) == [prefix |-> prefix]
GrandStave(staves) == [staves |-> staves]
PlayOf(name) == [name |-> name, grand_staves |-> <<>>]
VoiceOf(name) ==
    [name |-> name, program |-> NoNumber, channel |-> NoNumber,
     transpose |-> NoNumber, volume |-> NoNumber, drums |-> NoBool]
PieceDefault ==
    [title |-> NoBytes, composer |-> NoBytes, tempo |-> NoNumber,
     beats |-> NoNumber, voices |-> <<>>, plays |-> <<>>]

\* `node.field = Some(value?)`: the Err of the value, or the node with the
\* field set
set_from(r, node, field) ==
    IF r.err THEN r ELSE Ok(r.parser, [node EXCEPT ![field] = Some(r.value)])

\* a parse_stave_contents that takes one line and no continuation line
parse_stave_contents_once(p, stave_prefix) ==
    Ok(skip_whitespace_in_line(skip_stave_contents(p)), Stave(stave_prefix))

RECURSIVE parse_stave_contents(_, _)

\* parse_stave_contents, with the parser q after the line and what
\* skip_only("|") returns there
stave_line(q, bar, stave_prefix) ==
    IF bar.ok THEN parse_stave_contents(bar.parser, stave_prefix)
    ELSE Ok(q, Stave(stave_prefix))

\* parse_stave_contents, with the parser q after the line
stave_after_line(q, stave_prefix) == stave_line(q, skip_only(q, <<"|">>), stave_prefix)

parse_stave_contents(p, stave_prefix) ==
    stave_after_line(skip_whitespace_in_line(skip_stave_contents(p)), stave_prefix)

RECURSIVE grand_stave_loop(_, _)

\* grand_stave.staves.push(parse_stave_contents(..)?) and the next iteration
grand_stave_push(stave, grand_stave) ==
    IF stave.err THEN stave
    ELSE grand_stave_loop(stave.parser,
                          GrandStave(Append(grand_stave.staves, stave.value)))

\* the loop of parse_grand_stave after parse_attr and skip(":")
grand_stave_colon(attr, colon, grand_stave) ==
    LET bar == skip_only(colon.parser, <<"|">>)
    IN  IF colon.ok
        THEN IF bar.ok
             THEN grand_stave_push(
                      parse_stave_contents(skip_whitespace_in_line(bar.parser), attr.attr),
                      grand_stave)
             ELSE Err("Attributes cannot be set from within a grand stave")
        ELSE IF attr.attr.some THEN Err("Attribute is missing a value.")
        ELSE Ok(colon.parser, grand_stave)

\* the loop of parse_grand_stave after skip_end_of_stave, and parse_attr
grand_stave_next(end, attr, grand_stave) ==
    IF end.ok THEN Ok(skip_whitespace(end.parser), grand_stave)
    ELSE grand_stave_colon(attr, skip(attr.parser, <<":">>), grand_stave)

\* the loop of parse_grand_stave that collects the staves after the first
grand_stave_loop(p, grand_stave) ==
    grand_stave_next(skip_end_of_stave(p), parse_attr(p), grand_stave)

\* parse_grand_stave, once the first stave is parsed
grand_stave_first(first) ==
    IF first.err THEN first
    ELSE grand_stave_loop(first.parser, GrandStave(<<first.value>>))

parse_grand_stave(p, first_stave_prefix) ==
    grand_stave_first(
        parse_stave_contents(skip_whitespace_in_line(p), first_stave_prefix))

RECURSIVE play_contents_loop(_, _)

\* play.grand_staves.push(parse_grand_stave(..)?) and the next iteration
play_push(grand_stave, play) ==
    IF grand_stave.err THEN grand_stave
    ELSE play_contents_loop(grand_stave.parser,
                            [play EXCEPT !.grand_staves = Append(@, grand_stave.value)])

\* the loop of parse_play_contents after parse_attr and skip(":")
play_colon(attr, colon, play) ==
    LET bar == skip_only(colon.parser, <<"|">>)
    IN  IF colon.ok
        THEN IF bar.ok THEN play_push(parse_grand_stave(bar.parser, attr.attr), play)
             ELSE Err("Attributes in play blocks not currently supported.")
        ELSE IF attr.attr.some THEN Err("Attribute is missing a value.")
        ELSE Ok(skip_whitespace(colon.parser), play)

\* the loop of parse_play_contents after parse_attr
play_attr(attr, play) == play_colon(attr, skip(attr.parser, <<":">>), play)

play_contents_loop(p, play) == play_attr(parse_attr(p), play)

parse_play_contents(p, name) == play_contents_loop(p, PlayOf(name))

\* voice.transpose = Some(parse_number_only::<i8>()? * 12): the product is
\* computed in i8 without a check
voice_octave(octave, a_voice) ==
    IF octave.err THEN octave
    ELSE Overflowed(
             Ok(octave.parser,
                [a_voice EXCEPT !.transpose = Some(WrapI8(octave.value * 12))]),
             ~FitsI8(octave.value * 12))

\* the match of parse_voice_contents: the value of the attribute
voice_attribute(p, a_voice, attr_name) ==
    CASE attr_name = <<"p", "r", "o", "g", "r", "a", "m">> ->
           set_from(parse_number_only(p, "u8"), a_voice, "program")
      [] attr_name = <<"c", "h", "a", "n", "n", "e", "l">> ->
           set_from(parse_number_only(p, "u8"), a_voice, "channel")
      [] attr_name = <<"o", "c", "t", "a", "v", "e">> ->
           voice_octave(parse_number_only(p, "i8"), a_voice)
      [] attr_name = <<"v", "o", "l", "u", "m", "e">> ->
           set_from(parse_number_only(p, "u8"), a_voice, "volume")
      [] attr_name = <<"d", "r", "u", "m", "s">> ->
           set_from(parse_bool_only(p), a_voice, "drums")
      [] OTHER -> Err("Invalid attribute name")

RECURSIVE voice_contents_loop(_, _, _)

\* skip(",") || skip("\n") || skip(";") at q: the next iteration, or the break
voice_separator(q, separator, a_voice, overflow) ==
    IF separator.ok THEN voice_contents_loop(separator.parser, a_voice, overflow)
    ELSE Overflowed(Ok(q, a_voice), overflow)

\* the loop of parse_voice_contents after the value, at the parser q
voice_after_value(q, a_voice, overflow) ==
    voice_separator(q,
                    first_ok(skip(q, <<",">>),
                             first_ok(skip(q, <<"\n">>), skip(q, <<";">>))),
                    a_voice, overflow)

\* the loop of parse_voice_contents after the match
voice_set(set, overflow) ==
    IF set.err THEN Overflowed(set, overflow)
    ELSE voice_after_value(skip_whitespace_in_line(set.parser), set.value,
                           overflow \/ set.overflow)

\* the loop of parse_voice_contents after expect(":")
voice_colon(colon, attr_name, a_voice, overflow) ==
    IF colon.err THEN Overflowed(colon, overflow)
    ELSE voice_set(voice_attribute(colon.parser, a_voice, attr_name), overflow)

\* the loop of parse_voice_contents after parse_attr
voice_attr(p, attr, a_voice, overflow) ==
    IF ~attr.attr.some THEN Overflowed(Ok(p, a_voice), overflow)
    ELSE voice_colon(expect(attr.parser, <<":">>), attr.attr.value, a_voice, overflow)

voice_contents_loop(p, a_voice, overflow) ==
    voice_attr(p, parse_attr(p), a_voice, overflow)

parse_voice_contents(p, name) == voice_contents_loop(p, VoiceOf(name), FALSE)

\* the match of parse_piece_contents: the value of the attribute
piece_attribute(p, a_piece, attr_name) ==
    CASE attr_name = <<"t", "e", "m", "p", "o">> ->
           set_from(parse_number_only(p, "u64"), a_piece, "tempo")
      [] attr_name = <<"b", "e", "a", "t", "s">> ->
           set_from(parse_number_only(p, "u64"), a_piece, "beats")
      [] attr_name = <<"t", "i", "t", "l", "e">> ->
           set_from(parse_string_only(p), a_piece, "title")
      [] attr_name = <<"c", "o", "m", "p", "o", "s", "e", "r">> ->
           set_from(parse_string_only(p), a_piece, "composer")
      [] OTHER -> Err("Invalid attribute name")

\* an attribute_ended that takes any byte for the end of the assignment
attribute_ended_anywhere(p) == [ok |-> TRUE, parser |-> p]

\* parser.finished() || skip(",") || skip("\n") || skip(";") || check("}")
attribute_ended(p) ==
    IF finished(p) THEN [ok |-> TRUE, parser |-> p]
    ELSE first_ok(skip(p, <<",">>),
                  first_ok(skip(p, <<"\n">>),
                           first_ok(skip(p, <<";">>),
                                    [ok |-> check(p, <<"}">>), parser |-> p])))

RECURSIVE parse_piece_contents_loop(_, _, _)

\* a block, after expect("}"): the push and the next iteration
piece_block_close(close, value, is_play, a_piece, overflow) ==
    IF close.err THEN Overflowed(close, overflow)
    ELSE parse_piece_contents_loop(
             close.parser,
             IF is_play THEN [a_piece EXCEPT !.plays = Append(@, value)]
             ELSE [a_piece EXCEPT !.voices = Append(@, value)],
             overflow)

\* a block, after its contents
piece_block_contents(contents, is_play, a_piece, overflow) ==
    IF contents.err THEN Overflowed(contents, overflow)
    ELSE piece_block_close(expect(contents.parser, <<"}">>), contents.value,
                           is_play, a_piece, overflow \/ contents.overflow)

\* a block, after expect("{")
piece_block_open(open, name, is_play, a_piece, overflow) ==
    IF open.err THEN Overflowed(open, overflow)
    ELSE piece_block_contents(
             IF is_play THEN parse_play_contents(open.parser, name)
             ELSE parse_voice_contents(open.parser, name),
             is_play, a_piece, overflow)

\* a `play` or `voice` block, after the keyword and parse_attr
piece_block(name, is_play, a_piece, overflow) ==
    piece_block_open(expect(name.parser, <<"{">>), name.attr, is_play, a_piece, overflow)

\* the branch for `name: value`, after the attribute is terminated or not
piece_attribute_end(ended, a_piece, overflow) ==
    IF ~ended.ok
    THEN Overflowed(Err("Attributes must end with a newline, comma, or semi-colon."),
                    overflow)
    ELSE parse_piece_contents_loop(ended.parser, a_piece, overflow)

\* the branch for `name: value`, after the match
piece_attribute_set(set, overflow) ==
    IF set.err THEN Overflowed(set, overflow)
    ELSE piece_attribute_end(attribute_ended(skip_whitespace_in_line(set.parser)),
                             set.value, overflow)

\* the branch of parse_piece_contents for `name: value`, after expect(":")
piece_attribute_line(colon, attr_name, a_piece, overflow) ==
    IF colon.err THEN Overflowed(colon, overflow)
    ELSE piece_attribute_set(piece_attribute(colon.parser, a_piece, attr_name), overflow)

\* the last branch, after parse_play_contents(parser, None)
piece_toplevel_play(play, a_piece, overflow) ==
    IF play.err THEN Overflowed(play, overflow)
    ELSE Overflowed(Ok(skip_whitespace(play.parser),
                       [a_piece EXCEPT !.plays = Append(@, play.value)]),
                    overflow)

\* a last branch that parses a play whatever is left
piece_toplevel_always(q, a_piece, overflow) ==
    piece_toplevel_play(parse_play_contents(q, NoBytes), a_piece, overflow)

\* the last branch of parse_piece_contents, at the parser q after
\* skip_whitespace: what is left is the body of a play block with no name,
\* or nothing
piece_toplevel(q, a_piece, overflow) ==
    IF finished(q) \/ check(q, <<"}">>) THEN Overflowed(Ok(q, a_piece), overflow)
    ELSE piece_toplevel_play(parse_play_contents(q, NoBytes), a_piece, overflow)

\* the branches of the loop of parse_piece_contents
piece_branch(p, play, voice_kw, attr, a_piece, overflow) ==
    IF play.ok THEN piece_block(parse_attr(play.parser), TRUE, a_piece, overflow)
    ELSE IF voice_kw.ok
         THEN piece_block(parse_attr(voice_kw.parser), FALSE, a_piece, overflow)
    ELSE IF attr.attr.some
         THEN piece_attribute_line(expect(attr.parser, <<":">>), attr.attr.value,
                                   a_piece, overflow)
    ELSE piece_toplevel(skip_whitespace(p), a_piece, overflow)

parse_piece_contents_loop(p, a_piece, overflow) ==
    piece_branch(p,
                 skip_keyword(p, <<"p", "l", "a", "y">>),
                 skip_keyword(p, <<"v", "o", "i", "c", "e">>),
                 parse_attr(p),
                 a_piece, overflow)

parse_piece_contents(p) == parse_piece_contents_loop(p, PieceDefault, FALSE)

\* parse_piece with the keyword, after expect("}")
piece_close(close, inner) ==
    IF close.err THEN Overflowed(close, inner.overflow)
    ELSE Overflowed(Ok(close.parser, inner.value), inner.overflow)

\* parse_piece, after parse_piece_contents: with the keyword, expect("}")
piece_inner(inner, keyword) ==
    IF inner.err \/ ~keyword.ok THEN inner
    ELSE piece_close(expect(inner.parser, <<"}">>), inner)

\* parse_piece, after expect("{") when there is the keyword
piece_open(p, keyword, open) ==
    IF keyword.ok /\ open.err THEN open
    ELSE piece_inner(parse_piece_contents(IF keyword.ok THEN open.parser ELSE p),
                     keyword)

\* parse_piece, after skip_keyword("piece")
piece_keyword(p, keyword) == piece_open(p, keyword, expect(keyword.parser, <<"{">>))

parse_piece(p) == piece_keyword(p, skip_keyword(p, <<"p", "i", "e", "c", "e">>))

(***************************************************************************)
(* parse as a state machine: the whitespace skipped before the loop, then  *)
(* one step per iteration of the loop over the pieces.  The locals of      *)
(* sequence_pieces are left alone.                                         *)
(***************************************************************************)
MaxPieces == 3          \* iterations of the top-level loop of parse

seqlocals == <<piece_nodes, ip, iv, ipl, ist, ib, it, piece, voice,
               previous_note_exists, cursor, note_scale>>

ParseError(msg) == [kind |-> "parse", msg |-> msg]

\* parse, up to the loop: Parser::new and parser.skip_whitespace()
ParseBegin ==
    /\ pc = "parse"
    /\ parser' = skip_whitespace(parser)
    /\ pc' = "parse_loop"
    /\ UNCHANGED <<seqlocals, pieces, error>>

\* one iteration of the loop of parse: pieces.push(parse_piece(parser)?) and
\* the test of parser.finished().  An overflowing `octave * 12` aborts in a
\* build with overflow checks and wraps in one without.
ParseIteration(result) ==
    /\ pc = "parse_loop"
    /\ Len(pieces) < MaxPieces
    /\ \/ /\ result.overflow
          /\ pc' = "abort"
          /\ UNCHANGED <<parser, pieces, error>>
       \/ /\ result.err
          /\ pc' = "err"
          /\ error' = ParseError(result.msg)
          /\ UNCHANGED <<parser, pieces>>
       \/ /\ ~result.err
          /\ pieces' = Append(pieces, result.value)
          /\ parser' = result.parser
          /\ pc' = IF finished(result.parser) THEN "parsed" ELSE "parse_loop"
          /\ UNCHANGED error
    /\ UNCHANGED seqlocals

ParseLoop == ParseIteration(parse_piece(parser))

ParseNext == ParseBegin \/ ParseLoop

InitParser(sources) ==
    /\ parser \in {Parser_new(source) : source \in sources}
    /\ pc = "parse"
    /\ pieces = <<>>
    /\ error = NoError
    /\ piece_nodes = <<>>
    /\ ip = 1 /\ iv = 1 /\ ipl = 1 /\ ist = 1 /\ ib = 1 /\ it = 1
    /\ piece = DefaultPiece
    /\ voice = DefaultVoice
    /\ previous_note_exists = FALSE
    /\ cursor = 0
    /\ note_scale = 0

(***************************************************************************)
(* Sources made of up to MaxFragments fragments, among them the stray `}`, *)
(* a byte that starts nothing, and an octave whose product with 12 is out  *)
(* of i8.                                                                  *)
(***************************************************************************)
MaxFragments == 4

Fragments ==
    {<<"p", "i", "e", "c", "e">>, <<"p", "l", "a", "y">>, <<"v", "o", "i", "c", "e">>,
     <<"{">>, <<"}">>, <<":", "|">>, <<"\n">>, <<"@">>,
     <<"o", "c", "t", "a", "v", "e", ":", "1", "1">>}

RECURSIVE FragmentSources(_)
FragmentSources(n) ==
    IF n = 0 THEN {<<>>}
    ELSE LET shorter == FragmentSources(n - 1)
         IN  shorter \cup {s \o f : s \in shorter, f \in Fragments}

InitParse == InitParser(FragmentSources(MaxFragments))

ParseSpec == InitParse /\ [][ParseNext]_vars

(***************************************************************************)
(* Properties of parse.                                                    *)
(***************************************************************************)

\* C1: every iteration of the top-level loop of parse that leaves input
\* unconsumed (so that the loop goes round again) has advanced the cursor;
\* with that, parse returns after finitely many iterations on every source,
\* a stray `}` or a byte that starts nothing included.
C1_LoopIterationAdvancesCursor ==
    [][(pc = "parse_loop" /\ pc' = "parse_loop") => parser'.cursor > parser.cursor]_vars

(***************************************************************************)
(* Sources made of up to MaxStaves stave introductions: with and without   *)
(* a prefix, with and without contents, with a line that continues the     *)
(* stave, separated by one terminator, by a blank line or by a double `;`. *)
(* The text stands in a play block, or at piece level, where a piece       *)
(* attribute may come before it.                                           *)
(***************************************************************************)
MaxStaves == 3

StaveUnits ==
    {<<":", "|">>,
     <<" ", "a", ":", "|", " ", "C">>,
     <<":", "|", "C", "\n", " ", "|", "C">>}

Separators ==
    {<<"\n">>, <<";">>,
     <<"\n", "\n">>, <<"\n", " ", "\n">>, <<";", ";">>, <<";", " ", ";">>}

RECURSIVE StaveTexts(_)
StaveTexts(n) ==
    IF n <= 1 THEN StaveUnits
    ELSE LET shorter == StaveTexts(n - 1)
         IN  shorter \cup {t \o s \o u : t \in shorter, s \in Separators, u \in StaveUnits}

PlayOpen == <<"p", "l", "a", "y", "{">>
InPlayBlock(text) == PlayOpen \o text \o <<"}">>
AttributeLine == <<"t", "e", "m", "p", "o", ":", "1", "\n">>

StaveSources ==
    {InPlayBlock(t) : t \in StaveTexts(MaxStaves)}
        \cup StaveTexts(MaxStaves - 1)
        \cup {AttributeLine \o t : t \in StaveTexts(MaxStaves - 1)}

InitStaves == InitParser(StaveSources)

StaveSpec == InitStaves /\ [][ParseNext]_vars

(***************************************************************************)
(* What the text of a source says, read off the bytes.                     *)
(***************************************************************************)
StartsWith(source, start) ==
    Len(source) >= Len(start) /\ SubSeq(source, 1, Len(start)) = start

IsPlayBlock(source) == StartsWith(source, PlayOpen)
HasAttributeLine(source) == StartsWith(source, AttributeLine)

\* the stave introductions and what separates them, without what is around
StaveText(source) ==
    IF IsPlayBlock(source) THEN SubSeq(source, Len(PlayOpen) + 1, Len(source) - 1)
    ELSE IF HasAttributeLine(source)
         THEN SubSeq(source, Len(AttributeLine) + 1, Len(source))
    ELSE source

\* the places of the stave introductions `:|` of a text
Introductions(text) == {i \in 1..(Len(text) - 1) : text[i] = ":" /\ text[i + 1] = "|"}

\* the k-th smallest member of a set of numbers
RECURSIVE Nth(_, _)
Nth(S, k) ==
    LET least == CHOOSE x \in S : \A y \in S : x <= y
    IN  IF k = 1 THEN least ELSE Nth(S \ {least}, k - 1)

\* the newline at k is followed by a line that starts with `|`
ContinuesStave(text, k) ==
    /\ text[k] = "\n"
    /\ \E m \in (k + 1)..Len(text) :
          text[m] = "|" /\ \A n \in (k + 1)..(m - 1) : is_whitespace(text[n])

\* the places of the stave terminators between the k-th introduction and the
\* next, those that a continuation line follows left out
TerminatorsAfter(text, k) ==
    LET from == Nth(Introductions(text), k)
        to == Nth(Introductions(text), k + 1)
    IN  {i \in (from + 2)..(to - 1) :
            text[i] \in {"\n", ";"} /\ ~ContinuesStave(text, i)}

OneTerminator(text, k) == Cardinality(TerminatorsAfter(text, k)) = 1

BlankLine(text, k) ==
    /\ Cardinality(TerminatorsAfter(text, k)) >= 2
    /\ \A i \in TerminatorsAfter(text, k) : text[i] = "\n"

DoubleSemicolon(text, k) ==
    /\ Cardinality(TerminatorsAfter(text, k)) = 2
    /\ \A i \in TerminatorsAfter(text, k) : text[i] = ";"

\* for every stave of a play in order, the number of its grand stave
GroupOfStave(grand_staves) ==
    Concat([g \in 1..Len(grand_staves) |->
               [s \in 1..Len(grand_staves[g].staves) |-> g]])

\* C9: for a play block of stave introductions, parse returns one piece with
\* one play that has as many staves as the text has introductions (a line
\* that starts with `|` adds none); two consecutive staves are in the same
\* grand stave when one terminator separates their introductions, and in
\* different grand staves when a blank line or a double `;` does.
C9_StavesGroupedByTerminators ==
    IsPlayBlock(parser.source) =>
        /\ pc \notin {"err", "abort"}
        /\ pc = "parse_loop" => pieces = <<>>
        /\ pc = "parsed" =>
              /\ Len(pieces) = 1
              /\ Len(pieces[1].plays) = 1
              /\ LET text == StaveText(parser.source)
                     group == GroupOfStave(pieces[1].plays[1].grand_staves)
                 IN  /\ Len(group) = Cardinality(Introductions(text))
                     /\ \A k \in 1..(Len(group) - 1) :
                           /\ OneTerminator(text, k) => group[k] = group[k + 1]
                           /\ BlankLine(text, k) \/ DoubleSemicolon(text, k)
                                 => group[k] # group[k + 1]

\* a play block is parsed whose first two staves share a grand stave, whose
\* third is alone in the next one, and that has a continuation line
C9_Witness ==
    /\ pc = "parsed"
    /\ IsPlayBlock(parser.source)
    /\ GroupOfStave(pieces[1].plays[1].grand_staves) = <<1, 1, 2>>
    /\ \E i \in 1..Len(parser.source) : ContinuesStave(parser.source, i)
    /\ OneTerminator(StaveText(parser.source), 1)
    /\ DoubleSemicolon(StaveText(parser.source), 2)

\* C10: when parse returns for stave introductions written at piece level,
\* with or without a prefix, it returns Ok with one piece whose only play is
\* the play that the same text gives inside `play { }`, with name None, and
\* whose tempo is the one of the attribute line before the staves.
C10_ToplevelStavesAreTheImplicitPlay ==
    (~IsPlayBlock(parser.source) /\ pc \in {"parsed", "err"}) =>
        LET inside == parse_piece(Parser_new(InPlayBlock(StaveText(parser.source))))
        IN  /\ pc = "parsed"
            /\ Len(pieces) = 1
            /\ ~inside.err
            /\ pieces[1].plays = <<[inside.value.plays[1] EXCEPT !.name = NoBytes]>>
            /\ pieces[1].tempo =
                  IF HasAttributeLine(parser.source) THEN Some(1) ELSE NoNumber

(***************************************************************************)
(* parse as a function of the source: the loop of parse run to its end,    *)
(* for at most MaxPieces pieces.                                           *)
(***************************************************************************)
ParseOk(parsed, overflow) == [kind |-> "Ok", pieces |-> parsed, overflow |-> overflow]
ParseErr(overflow) == [kind |-> "Err", pieces |-> <<>>, overflow |-> overflow]
ParseUnfinished == [kind |-> "Unfinished", pieces |-> <<>>, overflow |-> FALSE]

RECURSIVE parse_pieces(_, _, _, _)
parse_pieces(result, parsed, overflow, fuel) ==
    IF result.err THEN ParseErr(overflow \/ result.overflow)
    ELSE IF finished(result.parser)
         THEN ParseOk(Append(parsed, result.value), overflow \/ result.overflow)
    ELSE IF fuel <= 1 THEN ParseUnfinished
    ELSE parse_pieces(parse_piece(result.parser), Append(parsed, result.value),
                      overflow \/ result.overflow, fuel - 1)

parse(source) ==
    parse_pieces(parse_piece(skip_whitespace(Parser_new(source))), <<>>, FALSE, MaxPieces)

(***************************************************************************)
(* Sources with one line comment: a text of lines, and a comment of up to  *)
(* MaxComment bytes put at the end of one of the lines.                    *)
(***************************************************************************)
MaxComment == 2

CommentBytes == {"x", " ", ";", "}", "|", ":"}

RECURSIVE CommentTexts(_)
CommentTexts(n) ==
    IF n = 0 THEN {<<>>}
    ELSE LET shorter == CommentTexts(n - 1)
         IN  shorter \cup {Append(t, b) : t \in shorter, b \in CommentBytes}

\* a piece with an attribute, a voice and a play of two grand staves
BlockLines ==
    <<<<"p", "i", "e", "c", "e", "{">>, <<"t", "e", "m", "p", "o", ":", "1">>, <<"t", "i", "t", "l", "e", ":", "\"", "t", "\"">>, <<"v", "o", "i", "c", "e", " ", "A", "{">>, <<"d", "r", "u", "m", "s", ":", "t", "r", "u", "e">>, <<"}">>,
      <<"p", "l", "a", "y", " ", "A", "{">>, <<"a", ":", "|", " ", "C">>, <<":", "|", " ", "G">>, <<>>, <<" ", ":", "|", " ", "E">>, <<"}">>, <<"}">>>>

\* attributes and staves at piece level
ToplevelLines == <<<<"b", "e", "a", "t", "s", ":", "4">>, <<":", "|", " ", "C">>, <<"b", ":", "|", " ", "C", " ", "D">>, <<" ", "|", " ", "E">>>>

RECURSIVE JoinLines(_)
JoinLines(lines) ==
    IF Len(lines) = 1 THEN lines[1]
    ELSE lines[1] \o <<"\n">> \o JoinLines(Tail(lines))

WithComment(lines, k, text) ==
    JoinLines([lines EXCEPT ![k] = @ \o <<"/", "/">> \o text])

CommentedSources(lines) ==
    {JoinLines(lines)}
        \cup {WithComment(lines, k, text) :
                 k \in 1..Len(lines), text \in CommentTexts(MaxComment)}

CommentSources == CommentedSources(BlockLines) \cup CommentedSources(ToplevelLines)

InitComments == InitParser(CommentSources)

CommentSpec == InitComments /\ [][ParseNext]_vars

\* the source without its line comments: `//` and what follows it on the line
RECURSIVE Uncommented(_, _)
Uncommented(source, in_comment) ==
    IF source = <<>> THEN <<>>
    ELSE IF source[1] = "\n" THEN <<"\n">> \o Uncommented(Tail(source), FALSE)
    ELSE IF in_comment THEN Uncommented(Tail(source), TRUE)
    ELSE IF Len(source) >= 2 /\ source[1] = "/" /\ source[2] = "/"
         THEN Uncommented(Tail(Tail(source)), TRUE)
    ELSE <<source[1]>> \o Uncommented(Tail(source), FALSE)

\* C11: a line comment is whitespace: a source whose text without the
\* comment parses to a tree parses to the same tree with the comment, at the
\* end of whichever line the comment stands and whatever bytes it holds.
C11_CommentsAreWhitespace ==
    (pc \in {"parsed", "err"} /\ parse(Uncommented(parser.source, FALSE)).kind = "Ok")
        => /\ pc = "parsed"
           /\ pieces = parse(Uncommented(parser.source, FALSE)).pieces

(***************************************************************************)
(* Sources with an attribute assignment at piece level: a key, a value,    *)
(* a gap on the same line, then what follows the value, and possibly one   *)
(* more assignment; at the top level or in a `piece { }` block.            *)
(***************************************************************************)
MaxGap == 1             \* spaces between the value and what follows it

NumberText == <<"1">>
StringText == <<"\"", "t", "\"">>

\* the keys of a piece, with the field of the tree and the text of a value
KnownKeys ==
    {[name |-> <<"t", "e", "m", "p", "o">>, field |-> "tempo", text |-> NumberText],
     [name |-> <<"b", "e", "a", "t", "s">>, field |-> "beats", text |-> NumberText],
     [name |-> <<"t", "i", "t", "l", "e">>, field |-> "title", text |-> StringText],
     [name |-> <<"c", "o", "m", "p", "o", "s", "e", "r">>, field |-> "composer", text |-> StringText]}

\* the value the tree holds for the text of the value of a key
KeyValue(key) == IF key.text = StringText THEN <<"t">> ELSE 1

\* keys of no piece attribute: of a voice, and a known key with a byte more
UnknownKeys ==
    {[name |-> <<"v", "o", "l", "u", "m", "e">>, field |-> "", text |-> NumberText],
     [name |-> <<"t", "e", "m", "p", "o", "s">>, field |-> "", text |-> NumberText],
     [name |-> <<"T", "i", "t", "l", "e">>, field |-> "", text |-> StringText]}

RECURSIVE Spaces(_)
Spaces(n) == IF n = 0 THEN <<>> ELSE <<" ">> \o Spaces(n - 1)

Gaps == {Spaces(n) : n \in 0..MaxGap} \cup {<<"\t">>}
CommentGap == <<" ", "/", "/", "c">>

\* what ends an assignment; the empty one stands for the end of the input or
\* for the `}` of the block
Terminators == {<<>>, <<",">>, <<"\n">>, <<";">>}
OtherBytes == {<<"x">>, <<"@">>, <<"{">>, <<"|">>, <<":">>, <<"\"">>, <<"/">>}

SecondAssignment == <<"b", "e", "a", "t", "s", ":", "4">>

\* a comment runs to the end of its line: after it comes the newline or
\* nothing
AttributeCases ==
    {c \in [wrapped : BOOLEAN, key : KnownKeys \cup UnknownKeys,
            gap : Gaps \cup {CommentGap}, next : Terminators \cup OtherBytes,
            second : BOOLEAN] :
        /\ c.gap = CommentGap =>
              /\ c.next \in {<<>>, <<"\n">>}
              /\ c.next = <<>> => (~c.wrapped /\ ~c.second)
        /\ (c.next = <<>> /\ c.second) => FALSE}

AttributeText(c) ==
    c.key.name \o <<":">> \o c.key.text \o c.gap \o c.next
        \o (IF c.second THEN SecondAssignment ELSE <<>>)

AttributeSource(c) ==
    IF c.wrapped THEN <<"p", "i", "e", "c", "e", "{">> \o AttributeText(c) \o <<"}">>
    ELSE AttributeText(c)

AttributeSources == {AttributeSource(c) : c \in AttributeCases}

InitAttributes == InitParser(AttributeSources)

AttributeSpec == InitAttributes /\ [][ParseNext]_vars

\* the cases a source is the text of
CasesOf(source) == {c \in AttributeCases : AttributeSource(c) = source}

Accepted(c) == c.key \in KnownKeys /\ c.next \in Terminators

\* the piece an accepted case describes, whatever its terminator
AssignedPiece(c) ==
    LET first == [PieceDefault EXCEPT ![c.key.field] = Some(KeyValue(c.key))]
    IN  IF c.second THEN [first EXCEPT !.beats = Some(4)] ELSE first

\* the first iteration of the loop of parse is over
FirstPieceDone == pc \notin {"parse", "parse_loop"} \/ pieces # <<>>

\* C12: an assignment at piece level whose key is tempo, beats, title or
\* composer and whose value is followed (after spaces, tabs or a comment on
\* the same line) by the end of the input, `,`, a newline, `;` or the `}` of
\* the block parses to the piece with that field set, the same piece for
\* every one of these terminators, and the `}` is left for the block; with
\* any other byte after the value, or any other key, parse returns Err.
C12_AttributeTerminators ==
    \A c \in CasesOf(parser.source) :
        FirstPieceDone =>
            IF Accepted(c) THEN pc = "parsed" /\ pieces = <<AssignedPiece(c)>>
            ELSE pc = "err" /\ pieces = <<>>

C12_Witness ==
    \E c \in CasesOf(parser.source) :
        /\ pc = "parsed"
        /\ c.wrapped /\ c.next = <<>> /\ c.gap = <<" ">>
        /\ pieces = <<AssignedPiece(c)>>
        /\ \E d \in AttributeCases :
              /\ d.next = <<";">> /\ d.key = c.key /\ d.second = c.second
              /\ AssignedPiece(d) = AssignedPiece(c)

(***************************************************************************)
(* Empty sources and resolved attributes.  The sources: blanks, then up to *)
(* MaxBlocks empty `piece { }` blocks with blanks in them and after them.  *)
(* The piece nodes: pieces with no voice and no play, with and without     *)
(* attributes, and a voice of every volume a u8 can hold, with one play.   *)
(***************************************************************************)
MaxBlocks == 2

U8_MAX == 255

Blanks == {<<>>, <<" ">>, <<"\n">>, <<"\t", "\r", " ">>, <<" ", "/", "/", "c", "\n">>}

EmptyBlock(blank) == <<"p", "i", "e", "c", "e">> \o blank \o <<"{">> \o blank \o <<"}">> \o blank

RECURSIVE EmptyBlocks(_)
EmptyBlocks(n) ==
    IF n = 0 THEN {<<>>}
    ELSE LET shorter == EmptyBlocks(n - 1)
         IN  shorter \cup {s \o EmptyBlock(b) : s \in shorter, b \in Blanks}

EmptySources == {b \o s : b \in Blanks, s \in EmptyBlocks(MaxBlocks)}

DefaultPieceNode == PieceNode(<<>>, <<>>)

AttributeNodes ==
    {[DefaultPieceNode EXCEPT !.tempo = tempo, !.beats = beats, !.title = title] :
        tempo \in {NoNumber, Some(90)}, beats \in {NoNumber, Some(3)},
        title \in {NoBytes, Some(<<"t">>)}}

VolumeNode(volume) ==
    PieceNode(<<[VoiceNode("A", 0) EXCEPT !.volume = volume]>>,
              <<Play("A", <<PitchStave(60)>>)>>)

ResolveInputs ==
    {<<node>> : node \in AttributeNodes}
        \cup {<<DefaultPieceNode, DefaultPieceNode>>}
        \cup {<<VolumeNode(NoNumber)>>}
        \cup {<<VolumeNode(Some(v))>> : v \in 0..U8_MAX}

\* parse of a source, or sequence_pieces of piece nodes
InitResolve == InitParser(EmptySources) \/ InitSequencer(ResolveInputs)

ResolveNext == ParseNext \/ Next

ResolveSpec == InitResolve /\ [][ResolveNext]_vars

\* the number of blocks of a source: the number of its `{`
RECURSIVE BlocksOf(_)
BlocksOf(source) ==
    IF source = <<>> THEN 0
    ELSE (IF source[1] = "{" THEN 1 ELSE 0) + BlocksOf(Tail(source))

\* n default pieces
DefaultPieces(n, default) == [i \in 1..n |-> default]

Parsing == pc \in {"parse", "parse_loop", "parsed"} \/ (pc = "err" /\ error.kind = "parse")

\* C13: the empty source, and a source of blanks and one empty `piece { }`
\* block, parse to one default piece, `piece{}piece{}` to two (n blocks to n);
\* sequence_pieces of default piece nodes returns as many pieces with the
\* default tempo and beats, no title, no composer and no voice.
C13_EmptySourceIsOneDefaultPiece ==
    LET n == IF BlocksOf(parser.source) = 0 THEN 1 ELSE BlocksOf(parser.source)
    IN  /\ Parsing =>
              /\ pc # "err"
              /\ pc = "parse_loop" => Len(pieces) < n
              /\ pc = "parsed" => pieces = DefaultPieces(n, PieceDefault)
        /\ (~Parsing /\ \A i \in 1..Len(piece_nodes) : piece_nodes[i] = DefaultPieceNode) =>
              /\ pc \notin {"err", "abort"}
              /\ pc = "done" =>
                    /\ pieces = DefaultPieces(Len(piece_nodes), DefaultPiece)
                    /\ \A i \in 1..Len(pieces) :
                          /\ pieces[i].tempo = DefaultTempo
                          /\ pieces[i].beats = DefaultBeats
                          /\ pieces[i].voices = <<>>

C13_Witness ==
    /\ pc = "parsed"
    /\ parser.source = <<"p", "i", "e", "c", "e", "{", "}", "p", "i", "e", "c", "e", "{", "}">>
    /\ pieces = <<PieceDefault, PieceDefault>>

\* the voices resolved so far: those of the pieces and the one being built
ResolvedVoices ==
    {pieces[i].voices[j] : <<i, j>> \in {ij \in (1..Len(pieces)) \X (1..3) :
                                            ij[2] <= Len(pieces[ij[1]].voices)}}
        \cup {piece.voices[j] : j \in 1..Len(piece.voices)}
        \cup (IF pc \in {"plays", "staves", "bars", "notes"} THEN {voice} ELSE {})

\* C14: a resolved volume is the volume of the voice node divided by 127 and
\* lies in 0.0 .. 1.0, for every volume the node can hold (a u8).
C14_VolumeWithinUnitRange ==
    ~Parsing =>
        \A v \in ResolvedVoices :
            v.volume.some =>
                /\ v.volume.value.den = I8_MAX
                /\ 0 <= v.volume.value.num
                /\ v.volume.value.num <= v.volume.value.den

(***************************************************************************)
(* Sources with a voice whose octave is every number an i8 can hold, and   *)
(* the numbers next to them that it cannot.                                *)
(***************************************************************************)
RECURSIVE DecimalDigits(_)
DecimalDigits(n) ==
    IF n < 10 THEN <<Digits[n + 1]>>
    ELSE DecimalDigits(n \div 10) \o <<Digits[(n % 10) + 1]>>

\* the text of a number
Decimal(n) == IF n < 0 THEN <<"-">> \o DecimalDigits(0 - n) ELSE DecimalDigits(n)

OctaveValues == (I8_MIN - 2)..(I8_MAX + 2)

OctaveSource(n) == <<"v", "o", "i", "c", "e", " ", "A", "{", "o", "c", "t", "a", "v", "e", ":">> \o Decimal(n) \o <<"}">>

OctaveSources == {OctaveSource(n) : n \in OctaveValues}

InitOctaves == InitParser(OctaveSources)

OctaveSpec == InitOctaves /\ [][ParseNext]_vars

\* C15: for every octave n that the number parser takes (an i8), the voice
\* is parsed with transpose = 12 * n exactly, or parse returns Err; the
\* product never leaves i8: it neither aborts the program nor wraps.
C15_TransposeIsTwelveTimesOctave ==
    \A n \in OctaveValues :
        parser.source = OctaveSource(n) =>
            /\ pc # "abort"
            /\ pc = "parsed" => pieces[1].voices[1].transpose = Some(12 * n)

(***************************************************************************)
(* More properties of sequence_pieces.                                     *)
(***************************************************************************)

\* C16: at the head of every bar of a play bound to the voice, a bar with no
\* token included, the length of the bar is not 0 and divides the voice's
\* divisions_per_bar, so that sequence_pieces goes on to the tokens of the
\* bar (no abort on the assertion or on a division by zero) with
\* note_scale * bar length = divisions_per_bar.
C16_BarScaleIsExact ==
    [][(pc = "bars" /\ ib <= Len(stave_node)) =>
          /\ BarLength(bar_node) # 0
          /\ voice.divisions_per_bar % BarLength(bar_node) = 0
          /\ pc' = "notes"
          /\ note_scale' * BarLength(bar_node) = voice.divisions_per_bar]_vars

\* the bar a resolved note was made from, and the tokens before it there
BarOf(note) == piece_node.plays[note.src[1]].staves[note.src[2]][note.src[3]]
LengthBefore(bar, t) == SumLengths(SubSeq(bar, 1, t - 1))

\* the position of a note of a voice, from where its token stands: the start
\* of its bar plus the scaled lengths of the tokens before it
PositionIsPlaced(v, note) ==
    LET d == v.divisions_per_bar
        i == note.src[3] - 1
    IN  /\ note.position =
               i * d + (d \div BarLength(BarOf(note))) * LengthBefore(BarOf(note), note.src[4])
        /\ i * d <= note.position
        /\ note.position < (i + 1) * d

\* the voices of the piece being resolved
VoicesOfPiece ==
    {piece.voices[j] : j \in 1..Len(piece.voices)}
        \cup (IF pc \in {"plays", "staves", "bars", "notes"} THEN {voice} ELSE {})

\* every bar of the piece node holds a token (sequence_pieces stops at a bar
\* that holds none)
EveryBarHoldsAToken(pn) ==
    \A p \in 1..Len(pn.plays) : \A s \in 1..Len(pn.plays[p].staves) :
        \A b \in 1..Len(pn.plays[p].staves[s]) : pn.plays[p].staves[s][b] # <<>>

InAPiece == pc \in {"voices", "plays", "staves", "bars", "notes"}

NoteIsOpen(stave, b, t) == TiedTo(stave, b, t) # {}

\* C18: an Extension that comes before the first Note of its stave, or after a
\* Rest with no Note since, changes no note: the voice, the piece under
\* construction and the finished pieces stay as they are, the step does not
\* abort, and the cursor advances by scale * length.  The previous-note flag is
\* false when the first bar of a stave begins and after every Rest, and while
\* the tokens of a bar are consumed it is set exactly when the last token of the
\* stave that is not an Extension is a Note.
C18_ExtensionWithoutTargetIsSkipped ==
    /\ [][(/\ pc = "notes" /\ it <= Len(bar_node)
           /\ note_node.kind = "Extension"
           /\ ~NoteIsOpen(stave_node, ib, it)) =>
              /\ voice' = voice
              /\ piece' = piece
              /\ pieces' = pieces
              /\ pc' = "notes"
              /\ cursor' = cursor + note_scale * note_node.length]_vars
    /\ [][(pc = "notes" /\ it <= Len(bar_node) /\ note_node.kind = "Rest") =>
              ~previous_note_exists']_vars
    /\ []((pc = "bars" /\ ib = 1) => ~previous_note_exists)
    /\ [](pc = "notes" => (previous_note_exists <=> NoteIsOpen(stave_node, ib, it)))

\* C18 witness: the second stave of a play opens with an Extension, which has
\* just been consumed; the note of the first stave keeps the length it was
\* given, and the cursor stands at scale * 2
C18_Witness ==
    /\ pc = "notes"
    /\ ist = 2 /\ ib = 1 /\ it = 2
    /\ bar_node[1] = Extension(2)
    /\ ~previous_note_exists
    /\ cursor = note_scale * 2
    /\ Len(voice.notes) = 1
    /\ voice.notes[1].src = <<ipl, 1, 1, 1>>
    /\ voice.notes[1].length =
          (voice.divisions_per_bar \div BarLength(play_node.staves[1][1])) * 1

(***************************************************************************)
(* The methods of the Parser, applied in any order to the parser of a      *)
(* short source.                                                           *)
(***************************************************************************)
MaxScan == 3            \* fragments per scanned source

ScanFragments ==
    {<<"/", "/">>, <<"\n">>, <<" ">>, <<"1">>, <<"-">>, <<"\"">>, <<"\\">>, <<"x">>, <<";">>, <<"}">>,
     <<"t", "r", "u", "e">>, <<"9", "9", "9">>}

RECURSIVE ScanSources(_)
ScanSources(n) ==
    IF n = 0 THEN {<<>>}
    ELSE LET shorter == ScanSources(n - 1)
         IN  shorter \cup {s \o f : s \in shorter, f \in ScanFragments}

\* the arguments the methods are called with
ScanLiterals == {<<"/", "/">>, <<"\n">>, <<";">>, <<"}">>, <<"\"">>, <<"x">>, <<"1", "-">>}
Keywords == {<<"p", "i", "e", "c", "e">>, <<"v", "o", "i", "c", "e">>, <<"p", "l", "a", "y">>, <<"t", "r", "u", "e">>, <<"f", "a", "l", "s", "e">>}
ScanKeywords == Keywords \cup {<<"x">>, <<"9", "9", "9">>}
NumberTypes == {"u8", "i8", "u64"}

InitScanner(parsers) ==
    /\ parser \in parsers
    /\ pc = "scan"
    /\ pieces = <<>>
    /\ error = NoError
    /\ piece_nodes = <<>>
    /\ ip = 1 /\ iv = 1 /\ ipl = 1 /\ ist = 1 /\ ib = 1 /\ it = 1
    /\ piece = DefaultPiece
    /\ voice = DefaultVoice
    /\ previous_note_exists = FALSE
    /\ cursor = 0
    /\ note_scale = 0

InitScan == InitScanner({Parser_new(source) : source \in ScanSources(MaxScan)})

\* one action per method that moves the cursor: the call, made on the parser as
\* it stands, whatever the call returns
ApplySkip ==
    /\ pc = "scan"
    /\ \E next \in ScanLiterals : parser' = skip(parser, next).parser
    /\ UNCHANGED <<seqlocals, pc, pieces, error>>

ApplySkipOnly ==
    /\ pc = "scan"
    /\ \E next \in ScanLiterals : parser' = skip_only(parser, next).parser
    /\ UNCHANGED <<seqlocals, pc, pieces, error>>

ApplyExpect ==
    /\ pc = "scan"
    /\ \E next \in ScanLiterals : parser' = expect(parser, next).parser
    /\ UNCHANGED <<seqlocals, pc, pieces, error>>

ApplySkipKeyword ==
    /\ pc = "scan"
    /\ \E keyword \in ScanKeywords : parser' = skip_keyword(parser, keyword).parser
    /\ UNCHANGED <<seqlocals, pc, pieces, error>>

ApplySkipWhitespace ==
    /\ pc = "scan"
    /\ parser' = skip_whitespace(parser)
    /\ UNCHANGED <<seqlocals, pc, pieces, error>>

ApplySkipWhitespaceInLine ==
    /\ pc = "scan"
    /\ parser' = skip_whitespace_in_line(parser)
    /\ UNCHANGED <<seqlocals, pc, pieces, error>>

ApplyParseAttr ==
    /\ pc = "scan"
    /\ parser' = parse_attr(parser).parser
    /\ UNCHANGED <<seqlocals, pc, pieces, error>>

ApplyParseNumberOnly ==
    /\ pc = "scan"
    /\ \E T \in NumberTypes : parser' = parse_number_only(parser, T).parser
    /\ UNCHANGED <<seqlocals, pc, pieces, error>>

ApplyParseStringOnly ==
    /\ pc = "scan"
    /\ parser' = parse_string_only(parser).parser
    /\ UNCHANGED <<seqlocals, pc, pieces, error>>

ApplyParseBoolOnly ==
    /\ pc = "scan"
    /\ parser' = parse_bool_only(parser).parser
    /\ UNCHANGED <<seqlocals, pc, pieces, error>>

ApplySkipEndOfStave ==
    /\ pc = "scan"
    /\ parser' = skip_end_of_stave(parser).parser
    /\ UNCHANGED <<seqlocals, pc, pieces, error>>

ApplySkipStaveContents ==
    /\ pc = "scan"
    /\ parser' = skip_stave_contents(parser)
    /\ UNCHANGED <<seqlocals, pc, pieces, error>>

ScanNext ==
    \/ ApplySkip
    \/ ApplySkipOnly
    \/ ApplyExpect
    \/ ApplySkipKeyword
    \/ ApplySkipWhitespace
    \/ ApplySkipWhitespaceInLine
    \/ ApplyParseAttr
    \/ ApplyParseNumberOnly
    \/ ApplyParseStringOnly
    \/ ApplyParseBoolOnly
    \/ ApplySkipEndOfStave
    \/ ApplySkipStaveContents

ScanSpec == InitScan /\ [][ScanNext]_vars

\* the cursors at which the loop of skip_whitespace reads source[cursor]
RECURSIVE whitespace_reads(_, _)
whitespace_reads(p, in_comment) ==
    IF check(p, <<"/", "/">>) THEN whitespace_reads(advance(p, 2), TRUE)
    ELSE IF check(p, <<"\n">>) THEN whitespace_reads(advance(p, 1), FALSE)
    ELSE IF finished(p) THEN {}
    ELSE IF in_comment THEN whitespace_reads(advance(p, 1), TRUE)
    ELSE {p.cursor} \cup (IF is_whitespace(byte_at(p, p.cursor))
                          THEN whitespace_reads(advance(p, 1), FALSE)
                          ELSE {})

\* the cursors at which the loop of skip_whitespace_in_line reads source[cursor]
RECURSIVE whitespace_in_line_reads(_, _)
whitespace_in_line_reads(p, in_comment) ==
    IF check(p, <<"/", "/">>) THEN whitespace_in_line_reads(advance(p, 2), TRUE)
    ELSE IF finished(p) \/ check(p, <<"\n">>) THEN {}
    ELSE IF in_comment THEN whitespace_in_line_reads(advance(p, 1), TRUE)
    ELSE {p.cursor} \cup (IF is_whitespace(byte_at(p, p.cursor))
                          THEN whitespace_in_line_reads(advance(p, 1), FALSE)
                          ELSE {})

\* the cursor at which expect reads next_byte
expect_reads(p) == IF finished(p) THEN {} ELSE {p.cursor}

CursorReads(p) ==
    whitespace_reads(p, FALSE) \cup whitespace_in_line_reads(p, FALSE) \cup expect_reads(p)

\* the parsers that one call of a method can leave behind
AfterOneCall(p) ==
    {skip(p, next).parser : next \in ScanLiterals}
    \cup {skip_only(p, next).parser : next \in ScanLiterals}
    \cup {expect(p, next).parser : next \in ScanLiterals}
    \cup {skip_keyword(p, keyword).parser : keyword \in ScanKeywords}
    \cup {skip_whitespace(p), skip_whitespace_in_line(p), parse_attr(p).parser,
          parse_string_only(p).parser, parse_bool_only(p).parser,
          skip_end_of_stave(p).parser, skip_stave_contents(p)}
    \cup {parse_number_only(p, T).parser : T \in NumberTypes}

\* skip returning false, parse_number_only or parse_string_only returning Err
FailuresKeepCursor(p) ==
    /\ \A next \in ScanLiterals : ~skip(p, next).ok => skip(p, next).parser.cursor = p.cursor
    /\ \A T \in NumberTypes :
          parse_number_only(p, T).err => parse_number_only(p, T).parser.cursor = p.cursor
    /\ parse_string_only(p).err => parse_string_only(p).parser.cursor = p.cursor

\* C19: the cursor stays within 0..source length; no method of the parser moves
\* it backwards or changes the source; every read of source[cursor] is made at a
\* cursor below the source length; and a skip that returns false, and a
\* parse_number_only or parse_string_only that returns Err, leave the cursor
\* where it was.
C19_CursorMovesForwardWithinSource ==
    /\ [](pc = "scan" =>
            /\ 0 <= parser.cursor /\ parser.cursor <= Len(parser.source)
            /\ \A after \in AfterOneCall(parser) :
                  /\ after.source = parser.source
                  /\ parser.cursor <= after.cursor /\ after.cursor <= Len(after.source)
            /\ \A read \in CursorReads(parser) : read < Len(parser.source)
            /\ FailuresKeepCursor(parser))
    /\ [][parser'.source = parser.source /\ parser'.cursor >= parser.cursor]_vars

\* C19 witness: past the blank of ` 999`, where skip(";") returns false,
\* parse_string_only returns Err and parse_number_only of a u8 returns Err, and
\* parse_number_only of a u64 moves to the end of the source
C19_Witness ==
    /\ pc = "scan"
    /\ parser.source = <<" ", "9", "9", "9">>
    /\ parser.cursor = 1
    /\ ~skip(parser, <<";">>).ok
    /\ parse_string_only(parser).err
    /\ parse_number_only(parser, "u8").err
    /\ parse_number_only(parser, "u64").parser.cursor = 4

(***************************************************************************)
(* Keywords and the words that only begin with one.                        *)
(***************************************************************************)
KeywordSuffixes == {<<"2">>, <<"s">>, <<"_">>, <<"X">>, <<"x">>, <<"1">>, <<"b", "a", "c", "k">>}

\* a keyword, the bytes written straight after it, and the gap before `{`
KeywordCases ==
    [keyword : Keywords, suffix : {<<>>} \cup KeywordSuffixes, gap : {<<>>, <<" ">>}]

KeywordSource(c) ==
    IF c.keyword \in {<<"t", "r", "u", "e">>, <<"f", "a", "l", "s", "e">>}
    THEN <<"v", "o", "i", "c", "e", " ", "A", "{", "d", "r", "u", "m", "s", ":">> \o c.keyword \o c.suffix \o c.gap \o <<"}">>
    ELSE c.keyword \o c.suffix \o c.gap \o <<"{">> \o c.gap \o <<"}">>

\* keywords followed by a byte that is no letter, digit or underscore
KeywordTexts ==
    {k \o after : k \in Keywords, after \in {<<",">>, <<"-">>, <<"#">>, <<"'">>, <<"\n">>, <<"/", "/">>}}

KeywordSources == {KeywordSource(c) : c \in KeywordCases} \cup KeywordTexts

\* the parser at each place of a source
Places(source) == {[source |-> source, cursor |-> at] : at \in 0..Len(source)}

\* parse of each source, and the keyword methods at each place of each source
InitKeywords ==
    \/ InitParser(KeywordSources)
    \/ InitScanner(UNION {Places(source) : source \in KeywordSources})

KeywordNext == ParseBegin \/ ParseLoop \/ ApplySkipKeyword

KeywordSpec == InitKeywords /\ [][KeywordNext]_vars

KeywordCasesOf(source) == {c \in KeywordCases : KeywordSource(c) = source}

\* the bytes at the cursor are the keyword, and no letter, digit or underscore
\* follows them
KeywordAt(p, keyword) ==
    LET end == p.cursor + Len(keyword) IN
    /\ end <= Len(p.source)
    /\ \A i \in 1..Len(keyword) : p.source[p.cursor + i] = keyword[i]
    /\ \/ end = Len(p.source)
       \/ p.source[end + 1] \notin
             LowerCase \cup UpperCase \cup {"_"} \cup {Digits[d] : d \in 1..Len(Digits)}

\* the piece that the source of a case with no suffix describes
KeywordPiece(c) ==
    CASE c.keyword = <<"p", "i", "e", "c", "e">> -> PieceDefault
      [] c.keyword = <<"v", "o", "i", "c", "e">> -> [PieceDefault EXCEPT !.voices = <<VoiceOf(NoBytes)>>]
      [] c.keyword = <<"p", "l", "a", "y">> -> [PieceDefault EXCEPT !.plays = <<PlayOf(NoBytes)>>]
      [] OTHER -> [PieceDefault EXCEPT !.voices =
                      <<[VoiceOf(Some(<<"A">>)) EXCEPT !.drums = Some(c.keyword = <<"t", "r", "u", "e">>)]>>]

\* C20: check_keyword and skip_keyword succeed exactly when the bytes at the
\* cursor are the keyword and the byte after them is absent or is no letter,
\* digit or underscore, and a successful skip_keyword moves past the keyword.
\* So `piece`, `voice` and `play` followed by `{` open their block and `true`
\* and `false` are the values of drums, while a word that goes on after the
\* keyword (voice2, playback, pieces, truex, false1, ...) opens no block and is
\* no boolean: parse returns Err.
C20_KeywordsEndAtAWordBoundary ==
    /\ pc = "scan" =>
          \A keyword \in Keywords :
              /\ check_keyword(parser, keyword) <=> KeywordAt(parser, keyword)
              /\ skip_keyword(parser, keyword).ok <=> KeywordAt(parser, keyword)
              /\ KeywordAt(parser, keyword) =>
                    skip_keyword(parser, keyword).parser.cursor
                        >= parser.cursor + Len(keyword)
    /\ (pc \notin {"scan", "parse", "parse_loop"} \/ pieces # <<>>) =>
          \A c \in KeywordCasesOf(parser.source) :
              IF c.suffix = <<>> THEN pc = "parsed" /\ pieces = <<KeywordPiece(c)>>
              ELSE pc = "err" /\ pieces = <<>>

\* C20 witness: parse of `voice2 { }` has returned Err; the bytes at the start
\* are those of `voice`, and check_keyword does not take them for the keyword
C20_Witness ==
    /\ pc = "err"
    /\ parser.source = <<"v", "o", "i", "c", "e", "2", " ", "{", " ", "}">>
    /\ check(Parser_new(parser.source), <<"v", "o", "i", "c", "e">>)
    /\ ~check_keyword(Parser_new(parser.source), <<"v", "o", "i", "c", "e">>)
    /\ pieces = <<>>

====
